---- MODULE Spec2Model ----
(***************************************************************************)
(* Pet Empire: missions, the background mission sweep and raids.           *)
(*                                                                         *)
(* The durable store (users, pets, missions, raids, achievement progress)  *)
(* is the state.  Every                                                    *)
(* service call runs in one SQLAlchemy session: it edits the session's     *)
(* copy of the rows and `session.commit()` writes that copy to the store.  *)
(* A service operator therefore takes and returns a pair                   *)
(*     s : the rows as the session sees them (with uncommitted edits)      *)
(*     d : the rows as committed                                           *)
(* together with `ret`, the value returned or the exception raised.        *)
(* Times are seconds; the clock moves in steps of TickSeconds.             *)
(***************************************************************************)
EXTENDS Integers, Sequences, FiniteSets, TLC

\* ------------------------------------------------------------------ bounds
MaxTicks == 2
MaxMissions == 2
MaxRaids == 1
MaxRaidTicks == 2
MaxWatchedRaids == 2
MaxConcurrentRaids == 6
MaxCooldowns == 2

TickSeconds == 30 * 60
InstantTickSeconds == 20 * 60
RaidTickSeconds == 3 * 3600
MaxTime == MaxTicks * TickSeconds

\* ------------------------------------------------------- program constants
None == -1

RAID_COOLDOWN == 21600
RAID_SHIELD_DURATION == 3600
EXP_PER_LEVEL == 100
MISSION_FATIGUE_SECONDS == 1 * 3600
RAID_FATIGUE_SECONDS == 2 * 3600
SECONDS_PER_DAY == 24 * 3600
STARTING_COINS == 1000
STARTING_SLOTS == 5
FREE_RAIDS_DEFAULT == 5
LOYALTY_THRESHOLD == 80
\* Settings.max_pet_level, the configured maximum level
max_pet_level == 100
EVOLUTION_LEVELS == {10, 25, 50, 75, 100}

RARITIES ==
    [Common    |-> [base_income |-> 10,   base_power |-> 5],
     Uncommon  |-> [base_income |-> 25,   base_power |-> 12],
     Rare      |-> [base_income |-> 50,   base_power |-> 25],
     Epic      |-> [base_income |-> 150,  base_power |-> 60],
     Legendary |-> [base_income |-> 500,  base_power |-> 150],
     Mythical  |-> [base_income |-> 2000, base_power |-> 500]]

MISSION_TYPES ==
    [quick  |-> [duration |-> 1800,  base_reward |-> 50,   exp_reward |-> 20],
     medium |-> [duration |-> 10800, base_reward |-> 200,  exp_reward |-> 80],
     long   |-> [duration |-> 28800, base_reward |-> 800,  exp_reward |-> 300],
     epic   |-> [duration |-> 43200, base_reward |-> 2000, exp_reward |-> 800]]

TRAP_TYPES ==
    [basic_wall     |-> [cost |-> 100,   defense_bonus |-> 10],
     alarm          |-> [cost |-> 500,   defense_bonus |-> 15],
     electric_fence |-> [cost |-> 2000,  defense_bonus |-> 25],
     laser_grid     |-> [cost |-> 10000, defense_bonus |-> 50]]

\* rarity_bonus of generate_mission_rewards, in tenths (1.0 .. 5.0)
rarity_bonus ==
    [Common |-> 10, Uncommon |-> 12, Rare |-> 15,
     Epic |-> 20, Legendary |-> 30, Mythical |-> 50]

\* ------------------------------------------------------------ the universe
Users == {1, 2, 3}
Pets == {1, 2, 3, 4}

\* the sessions that can be open at once, and a session with no call in it
SessionIds == {1, 2}
Idle == [pc |-> "idle"]

\* the pet id lists a caller hands to execute_raid
RaidPetInputs == {{2, 3}, {1, 4}}

\* the (attacker, defender) pairs a raid is asked for
RaidPairInputs == {<<1, 1>>, <<1, 2>>, <<2, 1>>, <<1, 3>>, <<3, 2>>}

\* mission types a caller asks for; "bogus" is a key MISSION_TYPES lacks
MissionTypeInputs == {"quick", "medium", "bogus"}

Terminal == {"completed", "failed", "cancelled"}

\* ----------------------------------------------------------- pure helpers
RECURSIVE Pow(_, _)
Pow(b, n) == IF n = 0 THEN 1 ELSE b * Pow(b, n - 1)

\* int(x) of a rational num/den (den > 0): truncation toward zero
TruncDiv(num, den) == IF num >= 0 THEN num \div den ELSE -((-num) \div den)

Max(a, b) == IF a >= b THEN a ELSE b

Date(t) == t \div SECONDS_PER_DAY

\* int(EXP_PER_LEVEL * 1.1 ** level)
calculate_level_up_requirements(current_level) ==
    (EXP_PER_LEVEL * Pow(11, current_level)) \div Pow(10, current_level)

can_level_up(current_exp, current_level) ==
    current_exp >= calculate_level_up_requirements(current_level)

\* int(base * ((1 + level * 0.05) * rarity_bonus))
generate_mission_rewards(mission_type, pet_level, pet_rarity) ==
    LET md  == MISSION_TYPES[mission_type]
        mul == (100 + 5 * pet_level) * rarity_bonus[pet_rarity]
    IN  [coins |-> (md.base_reward * mul) \div 1000,
         exp   |-> (md.exp_reward * mul) \div 1000]

\* ------------------------------------------------------------------- state
VARIABLES
    now,        \* datetime.now(), seconds
    users,      \* users table: user_id -> row
    pets,       \* pets table: id -> row
    missions,   \* missions table: sequence of rows, id = index
    raids,      \* raids table: sequence of rows, id = index
    progress,   \* achievement_progress table: <<user_id, achievement id>> -> row
    sessions,   \* the calls that are between two of their commits: what each
                \* has in its session
    last        \* the last call that was watched: its arguments and what it
                \* returned or raised

vars == <<now, users, pets, missions, raids, progress, sessions, last>>
store == <<users, pets, missions, raids, progress>>

DB == [users |-> users, pets |-> pets, missions |-> missions, raids |-> raids,
       progress |-> progress]

NewUser(stars) ==
    [coins |-> STARTING_COINS, stars |-> stars, exp |-> 0,
     pet_slots |-> STARTING_SLOTS,
     raids_won |-> 0, raids_lost |-> 0, defenses_won |-> 0, defenses_lost |-> 0,
     free_raids_today |-> FREE_RAIDS_DEFAULT,
     last_raid_reset |-> None, raid_shield_until |-> None,
     traps |-> [t \in DOMAIN TRAP_TYPES |-> 0]]

NewPet(owner, rarity, defending) ==
    [owner_id |-> owner, rarity |-> rarity, level |-> 1, exp |-> 0,
     power |-> RARITIES[rarity].base_power,
     income_per_hour |-> RARITIES[rarity].base_income,
     stamina |-> 100, loyalty |-> 50, evolution_stage |-> 0,
     is_on_mission |-> FALSE, is_defending |-> defending,
     fatigue_until |-> None]

Init ==
    /\ now = 0
    /\ users = (1 :> NewUser(50) @@ 2 :> NewUser(25) @@ 3 :> NewUser(0))
    /\ pets = (1 :> NewPet(1, "Common", FALSE)
            @@ 2 :> NewPet(2, "Rare", TRUE)
            @@ 3 :> NewPet(2, "Mythical", FALSE)
            @@ 4 :> NewPet(3, "Uncommon", TRUE))
    /\ missions = <<>>
    /\ raids = <<>>
    /\ progress = <<>>
    /\ sessions = [i \in SessionIds |-> Idle]
    /\ last = [op |-> "init"]

\* ---------------------------------------------------------------- sessions
Ctx(s, d, ret) == [s |-> s, d |-> d, ret |-> ret]

\* session.commit(): the session's rows become the committed rows
Commit(s, ret) == [s |-> s, d |-> s, ret |-> ret]

\* ---------------------------------------------------------------- missions
\* start_mission without the fatigue test of line 33
start_mission_ignoring_fatigue(c, p, mission_type, t) ==
    LET pet == c.s.pets[p] IN
    IF pet.is_on_mission THEN Ctx(c.s, c.d, "ValueError: Pet is already on a mission")
    ELSE IF pet.is_defending THEN Ctx(c.s, c.d, "ValueError: Pet is currently defending")
    ELSE IF mission_type \notin DOMAIN MISSION_TYPES
         THEN Ctx(c.s, c.d, "ValueError: Invalid mission type")
    ELSE
      LET rewards == generate_mission_rewards(mission_type, pet.level, pet.rarity)
          mission == [user_id |-> pet.owner_id, pet_id |-> p,
                      mission_type |-> mission_type,
                      complete_at |-> t + MISSION_TYPES[mission_type].duration,
                      reward_coins |-> rewards.coins, reward_exp |-> rewards.exp,
                      status |-> "active"]
          s1 == [c.s EXCEPT !.pets[p].is_on_mission = TRUE,
                            !.missions = Append(@, mission)]
      IN  Commit(s1, "ok")

start_mission(c, p, mission_type, t) ==
    LET pet == c.s.pets[p] IN
    IF pet.is_on_mission THEN Ctx(c.s, c.d, "ValueError: Pet is already on a mission")
    ELSE IF pet.is_defending THEN Ctx(c.s, c.d, "ValueError: Pet is currently defending")
    ELSE IF pet.fatigue_until # None /\ pet.fatigue_until > t
         THEN Ctx(c.s, c.d, "ValueError: Pet is too tired")
    ELSE IF mission_type \notin DOMAIN MISSION_TYPES
         THEN Ctx(c.s, c.d, "ValueError: Invalid mission type")
    ELSE
      LET rewards == generate_mission_rewards(mission_type, pet.level, pet.rarity)
          mission == [user_id |-> pet.owner_id, pet_id |-> p,
                      mission_type |-> mission_type,
                      complete_at |-> t + MISSION_TYPES[mission_type].duration,
                      reward_coins |-> rewards.coins, reward_exp |-> rewards.exp,
                      status |-> "active"]
          s1 == [c.s EXCEPT !.pets[p].is_on_mission = TRUE,
                            !.missions = Append(@, mission)]
      IN  Commit(s1, "ok")

\* GameConstants defines no MAX_PET_LEVEL (it is a field of Settings): reading
\* GameConstants.MAX_PET_LEVEL raises AttributeError
GameConstants_has_MAX_PET_LEVEL == FALSE

\* The loop test `can_level_up(exp, level) and level < GameConstants.MAX_PET_LEVEL`:
\* `and` reads the right operand only when the left one is true.
level_up_test(current_exp, current_level) ==
    IF ~can_level_up(current_exp, current_level) THEN "false"
    ELSE IF ~GameConstants_has_MAX_PET_LEVEL THEN "AttributeError"
    ELSE IF current_level < max_pet_level THEN "true"
    ELSE "false"

\* The body of the loop (lines 97-109): the requirement is spent, the level
\* rises, income becomes int(income * 1.05), power rises by 2, and the
\* evolution stage rises when the new level is an evolution level
level_up(pet) ==
    [pet EXCEPT !.exp = @ - calculate_level_up_requirements(pet.level),
                !.level = @ + 1,
                !.income_per_hour = (@ * 105) \div 100,
                !.power = @ + 2,
                !.evolution_stage =
                    IF pet.level + 1 \in EVOLUTION_LEVELS THEN @ + 1 ELSE @]

\* The while loop of lines 96-109: it ends when the test is false or raises
RECURSIVE level_up_loop(_, _, _)
level_up_loop(s, p, levels_gained) ==
    LET test == level_up_test(s.pets[p].exp, s.pets[p].level) IN
    IF test = "true"
    THEN level_up_loop([s EXCEPT !.pets[p] = level_up(@)], p, levels_gained + 1)
    ELSE [s |-> s, levels_gained |-> levels_gained, test |-> test]

\* add_exp_to_pet: exp is added, the loop runs, and the call commits and
\* returns its dictionary (value), or the loop test raises and nothing is
\* committed.
add_exp_to_pet(c, p, exp_amount) ==
    LET s1  == [c.s EXCEPT !.pets[p].exp = @ + exp_amount]
        l   == level_up_loop(s1, p, 0)
        pet == l.s.pets[p]
    IN  IF l.test = "AttributeError"
        THEN [s |-> l.s, d |-> c.d, ret |-> "AttributeError", value |-> <<>>]
        ELSE [s |-> l.s, d |-> l.s, ret |-> "ok",
              value |-> [levels_gained |-> l.levels_gained,
                         new_level |-> pet.level,
                         new_power |-> pet.power,
                         new_income |-> pet.income_per_hour,
                         evolved |-> l.levels_gained > 0
                                     /\ pet.level \in EVOLUTION_LEVELS]]

\* complete_mission whose failure branch grants the full coin reward
complete_mission_full_coins_on_failure(c, m, success, t) ==
    LET mission == c.s.missions[m]
        p == mission.pet_id
        u == mission.user_id
    IN
    IF mission.status # "active" THEN Ctx(c.s, c.d, "ValueError: Mission is not active")
    ELSE IF mission.complete_at > t
         THEN Ctx(c.s, c.d, "ValueError: Mission is not complete yet")
    ELSE IF success THEN
      LET s1 == [c.s EXCEPT !.users[u].coins = @ + mission.reward_coins,
                            !.users[u].exp = @ + (mission.reward_exp \div 10)]
          r  == add_exp_to_pet(Ctx(s1, c.d, "none"), p, mission.reward_exp)
      IN  IF r.ret # "ok" THEN r
          ELSE Commit([r.s EXCEPT !.missions[m].status = "completed",
                                  !.pets[p].is_on_mission = FALSE],
                      "completed")
    ELSE
      Commit([c.s EXCEPT !.users[u].coins = @ + mission.reward_coins,
                         !.pets[p].fatigue_until = t + MISSION_FATIGUE_SECONDS,
                         !.missions[m].status = "failed",
                         !.pets[p].is_on_mission = FALSE],
             "failed")

\* Lines 103-114 of the success branch: the user is credited and
\* add_exp_to_pet is called, which commits (pet_service.py:111) or raises
credit_mission(c, m) ==
    LET mission == c.s.missions[m]
        u == mission.user_id
        s1 == [c.s EXCEPT !.users[u].coins = @ + mission.reward_coins,
                          !.users[u].exp = @ + (mission.reward_exp \div 10)]
    IN  add_exp_to_pet(Ctx(s1, c.d, "none"), mission.pet_id, mission.reward_exp)

\* a success branch that leaves the pet's flag set
close_mission_leaving_flag(s, m) ==
    Commit([s EXCEPT !.missions[m].status = "completed"], "completed")

\* Lines 116 and 144-147 of the success branch: the status, the pet's flag
\* and the commit
close_mission(s, m) ==
    Commit([s EXCEPT !.missions[m].status = "completed",
                     !.pets[s.missions[m].pet_id].is_on_mission = FALSE],
           "completed")

complete_mission(c, m, success, t) ==
    LET mission == c.s.missions[m]
        p == mission.pet_id
        u == mission.user_id
    IN
    IF mission.status # "active" THEN Ctx(c.s, c.d, "ValueError: Mission is not active")
    ELSE IF mission.complete_at > t
         THEN Ctx(c.s, c.d, "ValueError: Mission is not complete yet")
    ELSE IF success THEN
      LET r == credit_mission(c, m)
      IN  IF r.ret # "ok" THEN r
          ELSE close_mission(r.s, m)
    ELSE
      LET reduced_coins == (mission.reward_coins * 2) \div 10
      IN  Commit([c.s EXCEPT !.users[u].coins = @ + reduced_coins,
                             !.pets[p].fatigue_until = t + MISSION_FATIGUE_SECONDS,
                             !.missions[m].status = "failed",
                             !.pets[p].is_on_mission = FALSE],
                 "failed")

\* cancel_mission without the status test of line 226
cancel_mission_any_status(c, m, t) ==
    LET mission == c.s.missions[m]
        p == mission.pet_id
    IN  Commit([c.s EXCEPT !.pets[p].is_on_mission = FALSE,
                           !.pets[p].fatigue_until = t + MISSION_FATIGUE_SECONDS,
                           !.missions[m].status = "cancelled"],
               "True")

cancel_mission(c, m, t) ==
    LET mission == c.s.missions[m]
        p == mission.pet_id
    IN
    IF mission.status # "active" THEN Ctx(c.s, c.d, "False")
    ELSE Commit([c.s EXCEPT !.pets[p].is_on_mission = FALSE,
                            !.pets[p].fatigue_until = t + MISSION_FATIGUE_SECONDS,
                            !.missions[m].status = "cancelled"],
                "True")

\* the cost without its minimum of 20
instant_cost_no_minimum(complete_at, t) == TruncDiv((complete_at - t) * 10, 3600)

\* cost = max(20, int(hours_left * 10)), hours_left = seconds_left / 3600
instant_cost(complete_at, t) == Max(20, TruncDiv((complete_at - t) * 10, 3600))

instant_complete_mission(c, m, u, t) ==
    LET mission == c.s.missions[m]
        cost == instant_cost(mission.complete_at, t)
    IN
    IF mission.status # "active" THEN Ctx(c.s, c.d, "ValueError: Mission is not active")
    ELSE IF c.s.users[u].stars < cost THEN Ctx(c.s, c.d, "ValueError: Not enough Stars")
    ELSE Commit([c.s EXCEPT !.users[u].stars = @ - cost,
                            !.missions[m].complete_at = t],
                "ok")

\* a loop that an exception leaves: the candidates after it are not attempted
RECURSIVE sweep_loop_stops_at_exception(_, _, _, _, _)
sweep_loop_stops_at_exception(c, order, success, t, out) ==
    IF order = <<>> THEN [s |-> c.s, d |-> c.d, ret |-> out]
    ELSE LET m == Head(order)
             r == complete_mission(c, m, success[m], t)
         IN  IF r.ret \notin {"completed", "failed"}
             THEN [s |-> r.s, d |-> r.d, ret |-> Append(out, r.ret)]
             ELSE sweep_loop_stops_at_exception(Ctx(r.s, r.d, "none"), Tail(order),
                                                success, t, Append(out, r.ret))

\* The loop of check_and_autocomplete_missions over `order`, one session for all:
\* each candidate goes to complete_mission, an exception is caught and logged.
\* `out` collects what each call returned or raised.
RECURSIVE sweep_loop(_, _, _, _, _)
sweep_loop(c, order, success, t, out) ==
    IF order = <<>> THEN [s |-> c.s, d |-> c.d, ret |-> out]
    ELSE LET m == Head(order)
             r == complete_mission(c, m, success[m], t)
         IN  sweep_loop(Ctx(r.s, r.d, "none"), Tail(order), success, t,
                        Append(out, r.ret))

\* the rows `select(Mission).where(status == "active", complete_at <= now)` returns
ready_missions(d, t) ==
    {m \in DOMAIN d.missions :
        d.missions[m].status = "active" /\ d.missions[m].complete_at <= t}

\* every order in which the query may return the rows of S
Orders(S) ==
    {o \in [1..Cardinality(S) -> S] : \A i, j \in DOMAIN o : i # j => o[i] # o[j]}

check_and_autocomplete_missions(c, order, success, t) ==
    sweep_loop(c, order, success, t, <<>>)

\* ------------------------------------------------------------------- raids
RECURSIVE SumOver(_, _)
SumOver(S, f) ==
    IF S = {} THEN 0
    ELSE LET x == CHOOSE y \in S : TRUE IN f[x] + SumOver(S \ {x}, f)

\* sum(pet.power * pet.level for pet in ...)
pets_power(s, P) == SumOver(P, [p \in P |-> s.pets[p].power * s.pets[p].level])

calculate_total_defense_power(s, user_id) ==
    LET defending_pets == {p \in DOMAIN s.pets : s.pets[p].owner_id = user_id
                                        /\ s.pets[p].is_defending}
        traps == s.users[user_id].traps
    IN  pets_power(s, defending_pets)
        + SumOver(DOMAIN traps,
                  [t \in DOMAIN traps |-> TRAP_TYPES[t].defense_bonus * traps[t]])

\* get_stealable_pets without the is_on_mission filter
get_stealable_pets_on_mission_too(s, user_id) ==
    {p \in DOMAIN s.pets : /\ s.pets[p].owner_id = user_id
                  /\ s.pets[p].rarity # "Mythical"}

get_stealable_pets(s, user_id) ==
    {p \in DOMAIN s.pets : /\ s.pets[p].owner_id = user_id
                  /\ ~s.pets[p].is_on_mission
                  /\ s.pets[p].rarity # "Mythical"}

\* `draw` is the outcome of random.random() > LOYALTY_STEAL_REDUCTION
can_steal_pet(pet, draw) ==
    IF pet.rarity = "Mythical" THEN FALSE
    ELSE IF pet.loyalty > LOYALTY_THRESHOLD THEN draw
    ELSE TRUE

transfer_pet(c, p, new_owner_id) ==
    LET owner_pets_count ==
            Cardinality({q \in DOMAIN c.s.pets : c.s.pets[q].owner_id = new_owner_id})
    IN  IF owner_pets_count >= c.s.users[new_owner_id].pet_slots
        THEN Ctx(c.s, c.d, "False")
        ELSE Commit([c.s EXCEPT !.pets[p].is_on_mission = FALSE,
                                !.pets[p].is_defending = FALSE,
                                !.pets[p].fatigue_until = None,
                                !.pets[p].owner_id = new_owner_id],
                    "True")

\* GameConstants defines no DAILY_FREE_RAIDS (it is a field of Settings)
GameConstants_has_DAILY_FREE_RAIDS == FALSE

\* a cooldown query that counts won raids only
recent_raid_won_only(s, attacker_id, defender_id, t) ==
    \E i \in DOMAIN s.raids :
        /\ s.raids[i].attacker_id = attacker_id
        /\ s.raids[i].defender_id = defender_id
        /\ s.raids[i].result = "win"
        /\ s.raids[i].timestamp > t - RAID_COOLDOWN

\* the cooldown query: a raid of this attacker on this defender newer than
\* now - RAID_COOLDOWN
recent_raid(s, attacker_id, defender_id, t) ==
    \E i \in DOMAIN s.raids :
        /\ s.raids[i].attacker_id = attacker_id
        /\ s.raids[i].defender_id = defender_id
        /\ s.raids[i].timestamp > t - RAID_COOLDOWN

can_raid_target(c, attacker_id, defender_id, t) ==
    IF attacker_id = defender_id THEN Ctx(c.s, c.d, "self")
    ELSE
      LET attacker == c.s.users[attacker_id]
          stale == attacker.last_raid_reset # None
                   /\ Date(attacker.last_raid_reset) < Date(t)
      IN
      IF stale /\ ~GameConstants_has_DAILY_FREE_RAIDS
      THEN Ctx(c.s, c.d, "AttributeError")
      ELSE
        LET c1 == IF stale
                  THEN Commit([c.s EXCEPT
                                 !.users[attacker_id].free_raids_today = FREE_RAIDS_DEFAULT,
                                 !.users[attacker_id].last_raid_reset = t], "none")
                  ELSE IF attacker.last_raid_reset = None
                  THEN Commit([c.s EXCEPT !.users[attacker_id].last_raid_reset = t],
                              "none")
                  ELSE c
            defender == c1.s.users[defender_id]
        IN
        IF c1.s.users[attacker_id].free_raids_today <= 0
        THEN Ctx(c1.s, c1.d, "no free raids")
        ELSE IF recent_raid(c1.s, attacker_id, defender_id, t)
        THEN Ctx(c1.s, c1.d, "cooldown")
        ELSE IF defender.raid_shield_until # None /\ defender.raid_shield_until > t
        THEN Ctx(c1.s, c1.d, "shield")
        ELSE Ctx(c1.s, c1.d, "ok")

\* a loop that stops after the first attacking pet
fatigue_all_first_only(c, P, t) ==
    LET first == CHOOSE p \in P : \A q \in P : p <= q IN
    Commit([c.s EXCEPT !.pets[first].fatigue_until = t + RAID_FATIGUE_SECONDS], "none")

\* set_pet_fatigue(hours=2) on every attacking pet, a commit after each
fatigue_all(c, P, t) ==
    Commit([c.s EXCEPT !.pets = [p \in DOMAIN c.s.pets |->
                IF p \in P THEN [@[p] EXCEPT !.fatigue_until = t + RAID_FATIGUE_SECONDS]
                ELSE @[p]]],
           "none")

\* an execute_raid whose winner takes the defender's pet of the highest id,
\* whatever its rarity and loyalty
execute_raid_stealing_any_pet(c, attacker_id, defender_id, attacker_pet_ids, success, target, draw, t) ==
    LET chk == can_raid_target(c, attacker_id, defender_id, t) IN
    IF chk.ret # "ok" THEN chk
    ELSE
      LET attacker_pets == {p \in attacker_pet_ids : chk.s.pets[p].owner_id = attacker_id}
      IN
      IF attacker_pets = {} THEN Ctx(chk.s, chk.d, "no valid pets")
      ELSE
        LET attack_power == pets_power(chk.s, attacker_pets)
            defense_power == calculate_total_defense_power(chk.s, defender_id)
            defender_pets == {p \in DOMAIN chk.s.pets : chk.s.pets[p].owner_id = defender_id}
            victim == IF defender_pets = {} THEN None
                      ELSE CHOOSE p \in defender_pets : \A q \in defender_pets : q <= p
            tried == success /\ defender_pets # {}
            moved == IF tried THEN transfer_pet(chk, victim, attacker_id) ELSE chk
            stolen == tried /\ moved.ret = "True"
            c2 == IF success THEN moved ELSE fatigue_all(chk, attacker_pets, t)
            raid == [attacker_id |-> attacker_id, defender_id |-> defender_id,
                     attacker_power |-> attack_power, defender_power |-> defense_power,
                     result |-> IF success THEN "win" ELSE "lose",
                     stolen_pet_id |-> IF stolen THEN victim ELSE None,
                     timestamp |-> t]
            s3 == IF success
                  THEN [c2.s EXCEPT
                          !.users[attacker_id].raid_shield_until = t + RAID_SHIELD_DURATION,
                          !.users[attacker_id].raids_won = @ + 1,
                          !.users[attacker_id].free_raids_today = @ - 1,
                          !.users[defender_id].defenses_lost = @ + 1,
                          !.raids = Append(@, raid)]
                  ELSE [c2.s EXCEPT
                          !.users[attacker_id].raids_lost = @ + 1,
                          !.users[attacker_id].free_raids_today = @ - 1,
                          !.users[defender_id].defenses_won = @ + 1,
                          !.raids = Append(@, raid)]
        IN  Commit(s3, raid.result)

\* a log that keeps one record per attacker: a new record takes the place of
\* the attacker's earlier one
log_raid_one_per_attacker(s, raid) ==
    [s EXCEPT !.raids =
        IF \E i \in DOMAIN @ : @[i].attacker_id = raid.attacker_id
        THEN [i \in DOMAIN @ |-> IF @[i].attacker_id = raid.attacker_id THEN raid ELSE @[i]]
        ELSE Append(@, raid)]

\* session.add(raid): the record joins the log
log_raid(s, raid) == [s EXCEPT !.raids = Append(@, raid)]

\* `success` is the draw against win_chance (clamped to [0.1, 0.9], so either
\* outcome can be drawn), `target` the pet random.choice picks among the
\* stealable ones, `draw` the loyalty draw.
\*
\* Lines 91-187 as far as the pets go, after the check `chk` has passed: the
\* attacking pets, the powers, and on a win the attempt to steal (transfer_pet
\* commits), on a loss the fatigue of every attacking pet (set_pet_fatigue
\* commits).  `out` is the session after it, `raid` the record to be logged.
raid_fight(chk, attacker_id, defender_id, attacker_pet_ids, success, target, draw, t) ==
    LET attacker_pets == {p \in attacker_pet_ids : chk.s.pets[p].owner_id = attacker_id}
    IN
    IF attacker_pets = {}
    THEN [out |-> Ctx(chk.s, chk.d, "no valid pets"), raid |-> <<>>]
    ELSE
      LET attack_power == pets_power(chk.s, attacker_pets)
          defense_power == calculate_total_defense_power(chk.s, defender_id)
          stealable_pets == get_stealable_pets(chk.s, defender_id)
          tried == success /\ stealable_pets # {}
                   /\ can_steal_pet(chk.s.pets[target], draw)
          moved == IF tried THEN transfer_pet(chk, target, attacker_id) ELSE chk
          stolen == tried /\ moved.ret = "True"
          c2 == IF success THEN moved ELSE fatigue_all(chk, attacker_pets, t)
      IN  [out |-> Ctx(c2.s, c2.d, "fought"),
           raid |-> [attacker_id |-> attacker_id, defender_id |-> defender_id,
                     attacker_power |-> attack_power, defender_power |-> defense_power,
                     result |-> IF success THEN "win" ELSE "lose",
                     stolen_pet_id |-> IF stolen THEN target ELSE None,
                     timestamp |-> t]]

\* a settlement that leaves the defender's tallies alone
raid_settle_attacker_only(s, raid, t) ==
    LET s2 == log_raid(s, raid)
        attacker_id == raid.attacker_id
    IN  IF raid.result = "win"
        THEN [s2 EXCEPT
                !.users[attacker_id].raid_shield_until = t + RAID_SHIELD_DURATION,
                !.users[attacker_id].raids_won = @ + 1,
                !.users[attacker_id].free_raids_today = @ - 1]
        ELSE [s2 EXCEPT
                !.users[attacker_id].raids_lost = @ + 1,
                !.users[attacker_id].free_raids_today = @ - 1]

\* Lines 144-199: the shield, the tallies, the free raid spent, and the Raid
\* record added to the session
raid_settle(s, raid, t) ==
    LET s2 == log_raid(s, raid)
        attacker_id == raid.attacker_id
        defender_id == raid.defender_id
    IN  IF raid.result = "win"
        THEN [s2 EXCEPT
                !.users[attacker_id].raid_shield_until = t + RAID_SHIELD_DURATION,
                !.users[attacker_id].raids_won = @ + 1,
                !.users[attacker_id].free_raids_today = @ - 1,
                !.users[defender_id].defenses_lost = @ + 1]
        ELSE [s2 EXCEPT
                !.users[attacker_id].raids_lost = @ + 1,
                !.users[attacker_id].free_raids_today = @ - 1,
                !.users[defender_id].defenses_won = @ + 1]

execute_raid(c, attacker_id, defender_id, attacker_pet_ids, success, target, draw, t) ==
    LET chk == can_raid_target(c, attacker_id, defender_id, t) IN
    IF chk.ret # "ok" THEN chk
    ELSE
      LET f == raid_fight(chk, attacker_id, defender_id, attacker_pet_ids,
                          success, target, draw, t)
      IN  IF f.out.ret # "fought" THEN f.out
          ELSE Commit(raid_settle(f.out.s, f.raid, t), f.raid.result)

\* ----------------------------------------------------------------- actions
\* A call on its own runs in a session of its own; what is not committed when
\* it returns or raises is dropped with the session.
Store(d) ==
    /\ users' = d.users
    /\ pets' = d.pets
    /\ missions' = d.missions
    /\ raids' = d.raids
    /\ progress' = d.progress

\* A specification watches some calls: a watched call leaves its record in
\* `last`, an unwatched one leaves `last` alone.
Log(watched, rec) == last' = IF watched THEN rec ELSE last

StartMissionCall(watched, types) ==
    /\ Len(missions) < MaxMissions
    /\ \E p \in Pets, mt \in types :
         LET r == start_mission(Ctx(DB, DB, "none"), p, mt, now) IN
         /\ Store(r.d)
         /\ Log(watched, [op |-> "start_mission", pet |-> p, ret |-> r.ret])
    /\ UNCHANGED <<now, sessions>>

CompleteMissionCall(watched) ==
    /\ \E m \in DOMAIN missions, success \in BOOLEAN :
         LET r == complete_mission(Ctx(DB, DB, "none"), m, success, now) IN
         /\ Store(r.d)
         /\ Log(watched, [op |-> "complete_mission", mission |-> m, ret |-> r.ret])
    /\ UNCHANGED <<now, sessions>>

CancelMissionCall(watched) ==
    /\ \E m \in DOMAIN missions :
         LET r == cancel_mission(Ctx(DB, DB, "none"), m, now) IN
         /\ Store(r.d)
         /\ Log(watched, [op |-> "cancel_mission", mission |-> m, ret |-> r.ret])
    /\ UNCHANGED <<now, sessions>>

\* the caller pays for a mission of its own
InstantCompleteCall(watched) ==
    /\ \E m \in DOMAIN missions :
         LET u == missions[m].user_id
             r == instant_complete_mission(Ctx(DB, DB, "none"), m, u, now) IN
         /\ Store(r.d)
         /\ Log(watched, [op |-> "instant_complete_mission", mission |-> m,
                          user |-> u, ret |-> r.ret])
    /\ UNCHANGED <<now, sessions>>

\* check_missions of main.py: a new session, the sweep, the session closed
SweepCall(watched) ==
    /\ LET ready == ready_missions(DB, now) IN
       \E order \in Orders(ready), success \in [ready -> BOOLEAN] :
         LET r == check_and_autocomplete_missions(Ctx(DB, DB, "none"), order, success, now) IN
         /\ Store(r.d)
         /\ Log(watched, [op |-> "sweep", order |-> order, ret |-> r.ret])
    /\ UNCHANGED <<now, sessions>>

Tick ==
    /\ now + TickSeconds <= MaxTime
    /\ now' = now + TickSeconds
    /\ UNCHANGED <<store, sessions, last>>

\* the loyalty draw is made only for a target whose loyalty exceeds the threshold
LoyaltyDraws(stealable) ==
    IF \E p \in stealable : pets[p].loyalty > LOYALTY_THRESHOLD THEN BOOLEAN ELSE {TRUE}

ExecuteRaidCall(watched, limit, pairs) ==
    /\ Len(raids) < limit
    /\ \E pair \in pairs, ids \in RaidPetInputs, success \in BOOLEAN :
         LET a == pair[1]
             d == pair[2]
             stealable == get_stealable_pets(DB, d) IN
         \E target \in (IF stealable = {} THEN {None} ELSE stealable),
            draw \in LoyaltyDraws(stealable) :
           LET r == execute_raid(Ctx(DB, DB, "none"), a, d, ids, success, target, draw, now) IN
           /\ Store(r.d)
           /\ Log(watched, [op |-> "execute_raid", attacker |-> a, defender |-> d,
                            ret |-> r.ret])
    /\ UNCHANGED <<now, sessions>>

RaidTick ==
    /\ now + RaidTickSeconds <= MaxRaidTicks * RaidTickSeconds
    /\ now' = now + RaidTickSeconds
    /\ UNCHANGED <<store, sessions, last>>

StartMission == StartMissionCall(FALSE, MissionTypeInputs)
CompleteMission == CompleteMissionCall(FALSE)
CancelMission == CancelMissionCall(FALSE)
InstantComplete == InstantCompleteCall(FALSE)
Sweep == SweepCall(FALSE)

Next ==
    \/ StartMission
    \/ CompleteMission
    \/ CancelMission
    \/ InstantComplete
    \/ Sweep
    \/ Tick

Spec == Init /\ [][Next]_vars

\* missions and raids together: quick missions, raids between users 1 and 2
QuickMission == StartMissionCall(FALSE, {"quick"})
ExecuteRaid == ExecuteRaidCall(FALSE, MaxRaids, {<<1, 2>>, <<2, 1>>})

AllNext ==
    \/ QuickMission
    \/ CompleteMission
    \/ CancelMission
    \/ InstantComplete
    \/ Sweep
    \/ ExecuteRaid
    \/ Tick

AllCalls == Init /\ [][AllNext]_vars

\* start_mission watched
WatchedStart == StartMissionCall(TRUE, MissionTypeInputs)

StartNext ==
    \/ WatchedStart
    \/ CompleteMission
    \/ CancelMission
    \/ Tick

StartCalls == Init /\ [][StartNext]_vars

\* complete_mission watched
WatchedComplete == CompleteMissionCall(TRUE)

CompleteNext ==
    \/ StartMission
    \/ WatchedComplete
    \/ InstantComplete
    \/ Tick

CompleteCalls == Init /\ [][CompleteNext]_vars

\* instant_complete_mission watched, on a clock of InstantTickSeconds
WatchedInstant == InstantCompleteCall(TRUE)

InstantTick ==
    /\ now + InstantTickSeconds <= MaxTicks * InstantTickSeconds
    /\ now' = now + InstantTickSeconds
    /\ UNCHANGED <<store, sessions, last>>

InstantNext ==
    \/ StartMission
    \/ WatchedInstant
    \/ CancelMission
    \/ InstantTick

InstantCalls == Init /\ [][InstantNext]_vars

\* the sweep watched
WatchedSweep == SweepCall(TRUE)

SweepNext ==
    \/ StartMission
    \/ InstantComplete
    \/ WatchedSweep
    \/ Tick

SweepCalls == Init /\ [][SweepNext]_vars

\* The scheduler of main.py runs check_missions every minute for as long as the
\* bot runs: the sweep is run again and again and the clock goes on.
ScheduledSweep ==
    /\ LET ready == ready_missions(DB, now) IN
       \E order \in Orders(ready), success \in [ready -> BOOLEAN] :
         LET r == check_and_autocomplete_missions(Ctx(DB, DB, "none"), order, success, now) IN
         /\ Store(r.d)
         /\ last' = [op |-> "scheduled",
                     run |-> IF last.op = "scheduled" THEN 1 - last.run ELSE 0]
    /\ UNCHANGED <<now, sessions>>

ScheduledNext ==
    \/ StartMission
    \/ ScheduledSweep
    \/ Tick

Scheduled == Init /\ [][ScheduledNext]_vars /\ WF_vars(ScheduledSweep) /\ WF_vars(Tick)

\* raids alone, watched, on a clock of RaidTickSeconds
WatchedRaid == ExecuteRaidCall(TRUE, MaxWatchedRaids, RaidPairInputs)

RaidNext ==
    \/ WatchedRaid
    \/ RaidTick

RaidCalls == Init /\ [][RaidNext]_vars

\* ------------------------------------------------------------------ claims
ActiveMissionsOf(p) ==
    {m \in DOMAIN missions : missions[m].pet_id = p /\ missions[m].status = "active"}

\* C1: a mission is created active, the only changes of a mission's status are
\* active -> completed, active -> failed and active -> cancelled, and a status
\* that is completed, failed or cancelled is never changed again by any call.
C1_TerminalStatusIsFinal ==
    [][/\ \A m \in DOMAIN missions :
            /\ m \in DOMAIN missions'
            /\ missions'[m].status # missions[m].status
                 => missions[m].status = "active" /\ missions'[m].status \in Terminal
       /\ \A m \in DOMAIN missions' \ DOMAIN missions : missions'[m].status = "active"
      ]_vars

\* a pet whose earlier mission is terminal is on a new mission
C1_RestartedAfterTerminal ==
    /\ \E m, n \in DOMAIN missions :
         /\ m < n
         /\ missions[m].pet_id = missions[n].pet_id
         /\ missions[m].status \in Terminal
         /\ missions[n].status = "active"
    /\ now > 0

\* C2: in every state reached by start_mission, complete_mission,
\* cancel_mission, instant_complete_mission, execute_raid and sweep calls, each
\* run to completion, every pet has at most one mission whose status is active.
C2_OneActiveMissionPerPet ==
    \A p \in Pets : Cardinality(ActiveMissionsOf(p)) <= 1

\* a pet stolen in a raid is on an active mission for its new owner
C2_StolenPetOnMission ==
    \E r \in DOMAIN raids, m \in DOMAIN missions :
        /\ raids[r].stolen_pet_id = missions[m].pet_id
        /\ missions[m].status = "active"
        /\ missions[m].user_id = raids[r].attacker_id

Busy(p) ==
    \/ pets[p].is_on_mission
    \/ pets[p].is_defending
    \/ pets[p].fatigue_until # None /\ pets[p].fatigue_until > now

ValidationErrors ==
    {"ValueError: Pet is already on a mission",
     "ValueError: Pet is currently defending",
     "ValueError: Pet is too tired"}

\* C3: start_mission on a pet that is on a mission, is defending or has
\* fatigue_until in the future raises a validation error, creates no mission
\* and leaves the pet's is_on_mission flag and all other state unchanged.
C3_BusyPetRejected ==
    [][\A p \in Pets : Busy(p) =>
          /\ Len(missions') > Len(missions) => missions'[Len(missions')].pet_id # p
          /\ (last' # last /\ last'.op = "start_mission" /\ last'.pet = p)
               => /\ last'.ret \in ValidationErrors
                  /\ pets[p].is_on_mission => last'.ret = "ValueError: Pet is already on a mission"
                  /\ UNCHANGED store
      ]_vars

\* the last call was rejected for fatigue
C3_TiredPetRejected ==
    /\ last.op = "start_mission"
    /\ last.ret = "ValueError: Pet is too tired"
    /\ \E m \in DOMAIN missions : missions[m].pet_id = last.pet

\* a watched complete_mission call was made on mission m, active before the call
CompletedCall(m) ==
    /\ last' # last
    /\ last'.op = "complete_mission"
    /\ last'.mission = m
    /\ missions[m].status = "active"

\* C4: complete_mission on an active mission whose complete_at is in the
\* future fails and leaves the mission active; on an active mission whose
\* complete_at has passed it always leaves the mission completed or failed,
\* never active.
C4_DueMissionAlwaysResolved ==
    [][\A m \in DOMAIN missions : CompletedCall(m) =>
          IF missions[m].complete_at > now
          THEN /\ last'.ret = "ValueError: Mission is not complete yet"
               /\ missions'[m] = missions[m]
          ELSE missions'[m].status \in {"completed", "failed"}
      ]_vars

\* what the code does: a call on a mission that is not due fails and leaves the
\* store as it was; a call on a due mission ends it completed or failed, or
\* raises AttributeError out of add_exp_to_pet and leaves it active.
C4_DueMissionResolvedOrRaises ==
    [][\A m \in DOMAIN missions : CompletedCall(m) =>
          IF missions[m].complete_at > now
          THEN /\ last'.ret = "ValueError: Mission is not complete yet"
               /\ UNCHANGED store
          ELSE \/ missions'[m].status \in {"completed", "failed"}
               \/ /\ last'.ret = "AttributeError"
                  /\ can_level_up(pets[missions[m].pet_id].exp + missions[m].reward_exp,
                                  pets[missions[m].pet_id].level)
                  /\ UNCHANGED store
      ]_vars

\* a call on a due mission raised and left the mission active
C4_DueMissionLeftActive ==
    /\ last.op = "complete_mission"
    /\ last.ret = "AttributeError"
    /\ missions[last.mission].status = "active"
    /\ missions[last.mission].complete_at <= now

\* C5: when complete_mission resolves a mission, on success the owner's coins
\* grow by reward_coins, the owner's exp by reward_exp \div 10 and the pet's exp
\* by reward_exp; on failure the coins grow by floor(0.2 * reward_coins), no
\* exp is granted and the pet's fatigue_until is now plus the fixed window; in
\* both branches the pet's is_on_mission is false afterwards.
C5_ResolutionRewards ==
    [][\A m \in DOMAIN missions :
          (CompletedCall(m) /\ last'.ret \in {"completed", "failed"}) =>
          LET u == missions[m].user_id
              p == missions[m].pet_id
              reward_coins == missions[m].reward_coins
              reward_exp == missions[m].reward_exp
          IN  /\ ~pets'[p].is_on_mission
              /\ missions'[m].status = last'.ret
              /\ last'.ret = "completed" =>
                    /\ users'[u].coins = users[u].coins + reward_coins
                    /\ users'[u].exp = users[u].exp + reward_exp \div 10
                    /\ pets'[p].exp = pets[p].exp + reward_exp
                    /\ pets'[p].fatigue_until = pets[p].fatigue_until
              /\ last'.ret = "failed" =>
                    /\ users'[u].coins = users[u].coins + reward_coins \div 5
                    /\ users'[u].exp = users[u].exp
                    /\ pets'[p].exp = pets[p].exp
                    /\ pets'[p].fatigue_until = now + MISSION_FATIGUE_SECONDS
      ]_vars

\* missions have been resolved both ways: one completed with its exp granted,
\* one failed with its pet fatigued
C5_ResolvedBothWays ==
    /\ last.op = "complete_mission"
    /\ \E m, n \in DOMAIN missions :
         /\ missions[m].status = "completed"
         /\ pets[missions[m].pet_id].exp > 0
         /\ missions[n].status = "failed"
         /\ missions[n].reward_coins % 5 # 0
         /\ pets[missions[n].pet_id].fatigue_until # None

Range(f) == {f[i] : i \in DOMAIN f}

\* C6: one run of check_and_autocomplete_missions passes every mission that is
\* active with complete_at <= now at its start to complete_mission, once each;
\* an exception raised for one of them is caught, and every candidate after it
\* is still attempted and resolved as its own draw decides.
C6_SweepAttemptsEveryCandidate ==
    [][(last' # last /\ last'.op = "sweep") =>
          LET order == last'.order
              ret == last'.ret
              due == {m \in DOMAIN missions :
                         missions[m].status = "active" /\ missions[m].complete_at <= now}
          IN  /\ Range(order) = due
              /\ Len(order) = Cardinality(due)
              /\ Len(ret) = Len(order)
              /\ \A i \in DOMAIN order :
                    \/ ret[i] \in {"completed", "failed"}
                          /\ missions'[order[i]].status = ret[i]
                    \/ ret[i] = "AttributeError"
                          /\ missions'[order[i]].status = "active"
      ]_vars

\* a sweep in which one candidate raised and a later one was resolved
C6_ResolvedAfterException ==
    /\ last.op = "sweep"
    /\ \E i, j \in DOMAIN last.ret :
         /\ i < j
         /\ last.ret[i] = "AttributeError"
         /\ last.ret[j] \in {"completed", "failed"}
         /\ missions[last.order[j]].status = last.ret[j]

InstantCall(m) ==
    /\ last'.op = "instant_complete_mission"
    /\ last'.mission = m
    /\ last' # last \/ users' # users

\* C8: instant_complete_mission on an active mission charges
\* max(20, floor(10 * hours remaining)) stars and sets complete_at to now, the
\* status staying active; with fewer stars than that, or on a mission that is
\* not active, it fails and changes neither the stars nor the mission.
C8_InstantCompleteCharge ==
    [][\A m \in DOMAIN missions : InstantCall(m) =>
          LET u == last'.user
              cost == Max(20, ((missions[m].complete_at - now) * 10) \div 3600)
          IN  IF missions[m].status = "active" /\ users[u].stars >= cost
              THEN /\ last'.ret = "ok"
                   /\ users' = [users EXCEPT ![u].stars = @ - cost]
                   /\ missions' = [missions EXCEPT ![m].complete_at = now]
                   /\ missions'[m].status = "active"
                   /\ UNCHANGED <<pets, raids>>
              ELSE /\ last'.ret = IF missions[m].status # "active"
                                  THEN "ValueError: Mission is not active"
                                  ELSE "ValueError: Not enough Stars"
                   /\ UNCHANGED store
      ]_vars

\* user 1 paid 26 stars for a mission with 2 h 40 min left, and the last call
\* failed for lack of stars
C8_PaidByTheHour ==
    /\ users[1].stars = 24
    /\ last.op = "instant_complete_mission"
    /\ last.ret = "ValueError: Not enough Stars"

\* a watched execute_raid call that was rejected
RejectedRaid ==
    /\ now' = now
    /\ last'.op = "execute_raid"
    /\ last'.ret \notin {"win", "lose"}

\* C9: a rejected execute_raid call appends no Raid record and leaves every
\* user's free-raid counter, reset timestamp, tallies and shield and every pet
\* unchanged.
C9_RejectedRaidChangesNothing ==
    [][RejectedRaid => UNCHANGED <<raids, users, pets>>]_vars

\* what the code does: a rejected call leaves raids and pets unchanged, and
\* users unchanged but for the attacker's last_raid_reset, which a first call
\* sets to now before any test but the one for a raid on oneself
C9_RejectedRaidSetsResetOnly ==
    [][RejectedRaid =>
          LET a == last'.attacker IN
          /\ UNCHANGED <<raids, pets, missions>>
          /\ users' = IF last'.ret # "self" /\ users[a].last_raid_reset = None
                      THEN [users EXCEPT ![a].last_raid_reset = now]
                      ELSE users
      ]_vars

\* the last call was rejected and the attacker's reset timestamp is set
\* although the attacker has never raided
C9_RejectedButResetSet ==
    /\ last.op = "execute_raid"
    /\ last.ret = "no valid pets"
    /\ users[last.attacker].last_raid_reset # None
    /\ \A r \in DOMAIN raids : raids[r].attacker_id # last.attacker

\* C10: any two Raid records of the same ordered (attacker, defender) pair are
\* at least RAID_COOLDOWN apart, whether the earlier raid was won or lost; and a
\* call is rejected for cooldown only when a raid of that same ordered pair
\* lies within the window, never for a raid of another attacker or on another
\* defender.
C10_CooldownPerOrderedPair ==
    [][/\ \A i, j \in DOMAIN raids' :
            (i < j /\ raids'[i].attacker_id = raids'[j].attacker_id
                   /\ raids'[i].defender_id = raids'[j].defender_id)
            => raids'[j].timestamp - raids'[i].timestamp >= RAID_COOLDOWN
       /\ (now' = now /\ last'.op = "execute_raid" /\ last'.ret = "cooldown")
            => \E i \in DOMAIN raids :
                  /\ raids[i].attacker_id = last'.attacker
                  /\ raids[i].defender_id = last'.defender
                  /\ now - raids[i].timestamp < RAID_COOLDOWN
      ]_vars

\* a lost raid and a second raid of the same pair exactly RAID_COOLDOWN later
C10_RaidedAgainAfterCooldown ==
    \E i, j \in DOMAIN raids :
        /\ i < j
        /\ raids[i].attacker_id = raids[j].attacker_id
        /\ raids[i].defender_id = raids[j].defender_id
        /\ raids[i].result = "lose"
        /\ raids[j].timestamp = raids[i].timestamp + RAID_COOLDOWN

\* ---------------------------------------------------------- the daily reset
\* can_raid_target called on its own, as get_raid_targets calls it for every
\* candidate target
CanRaidTargetCall(watched) ==
    /\ \E pair \in RaidPairInputs :
         LET r == can_raid_target(Ctx(DB, DB, "none"), pair[1], pair[2], now) IN
         /\ Store(r.d)
         /\ Log(watched, [op |-> "can_raid_target", attacker |-> pair[1],
                          defender |-> pair[2], ret |-> r.ret])
    /\ UNCHANGED <<now, sessions>>

\* eligibility checks watched, raids unwatched, on a clock of DayTickSeconds
DayTickSeconds == 12 * 3600

DayTick ==
    /\ now + DayTickSeconds <= MaxRaidTicks * DayTickSeconds
    /\ now' = now + DayTickSeconds
    /\ UNCHANGED <<store, sessions, last>>

WatchedCheck == CanRaidTargetCall(TRUE)
DailyRaid == ExecuteRaidCall(FALSE, MaxWatchedRaids, RaidPairInputs)

DailyNext ==
    \/ WatchedCheck
    \/ DailyRaid
    \/ DayTick

DailyChecks == Init /\ [][DailyNext]_vars

\* the attacker's last reset was recorded on an earlier calendar date
StaleReset(a) ==
    /\ users[a].last_raid_reset # None
    /\ Date(users[a].last_raid_reset) < Date(now)

\* a watched can_raid_target call of attacker a on another user
CheckCall(a) ==
    /\ now' = now
    /\ last' # last
    /\ last'.op = "can_raid_target"
    /\ last'.attacker = a
    /\ last'.defender # a

\* C11: the first can_raid_target an attacker makes on a calendar date later
\* than the date of last_raid_reset sets free_raids_today to the daily
\* allotment and records the reset; a check on the date of the last reset
\* leaves the counter alone, and within one date the counter never grows.
C11_FirstCheckOfDayResets ==
    [][/\ \A a \in Users : CheckCall(a) =>
            IF StaleReset(a)
            THEN /\ users'[a].free_raids_today = FREE_RAIDS_DEFAULT
                 /\ users'[a].last_raid_reset = now
            ELSE users'[a].free_raids_today = users[a].free_raids_today
       /\ \A u \in Users :
            (now' = now /\ ~StaleReset(u))
            => users'[u].free_raids_today <= users[u].free_raids_today
      ]_vars

\* what the code does: the first check on a later date raises AttributeError
\* and changes nothing; the counter never grows at all
C11_FirstCheckOfDayRaises ==
    [][/\ \A a \in Users : CheckCall(a) =>
            IF StaleReset(a)
            THEN last'.ret = "AttributeError" /\ UNCHANGED store
            ELSE users'[a].free_raids_today = users[a].free_raids_today
       /\ \A u \in Users : users'[u].free_raids_today <= users[u].free_raids_today
      ]_vars

\* a check on the day after a raid raised, and the counter is still below
\* the allotment
C11_CheckRaisedNextDay ==
    /\ last.op = "can_raid_target"
    /\ last.ret = "AttributeError"
    /\ Date(users[last.attacker].last_raid_reset) < Date(now)
    /\ users[last.attacker].free_raids_today < FREE_RAIDS_DEFAULT

\* ------------------------------------------------------------ the win chance
\* Chances are exact fractions [num, den], den > 0; the offset
\* random.uniform(-0.15, 0.15) is drawn in hundredths.
PowerInputs == {0, 1, 5, 525, 100000}
OffsetInputs == -15..15

Less(x, y) == x.num * y.den < y.num * x.den

\* attack / total (0.5 when total is 0) plus the offset, not clamped
win_chance_unclamped(attack_power, defense_power, offset) ==
    LET total_power == attack_power + defense_power
    IN  IF total_power = 0
        THEN [num |-> 50 + offset, den |-> 100]
        ELSE [num |-> 100 * attack_power + offset * total_power,
              den |-> 100 * total_power]

\* a clamp that forgets the lower limit: min(0.9, win_chance)
win_chance_without_floor(attack_power, defense_power, offset) ==
    LET raw == win_chance_unclamped(attack_power, defense_power, offset)
        high == [num |-> 9, den |-> 10]
    IN  IF Less(high, raw) THEN high ELSE raw

\* win_chance = max(0.1, min(0.9, win_chance))
win_chance(attack_power, defense_power, offset) ==
    LET raw == win_chance_unclamped(attack_power, defense_power, offset)
        low == [num |-> 1, den |-> 10]
        high == [num |-> 9, den |-> 10]
        capped == IF Less(high, raw) THEN high ELSE raw
    IN  IF Less(capped, low) THEN low ELSE capped

\* the chance execute_raid computes for its draw
WinChanceDraw ==
    /\ \E attack_power \in PowerInputs, defense_power \in PowerInputs,
          offset \in OffsetInputs :
         last' = [op |-> "win_chance", attack |-> attack_power,
                  defense |-> defense_power, offset |-> offset,
                  chance |-> win_chance(attack_power, defense_power, offset)]
    /\ UNCHANGED <<now, store, sessions>>

WinChanceNext ==
    \/ WinChanceDraw

WinChances == Init /\ [][WinChanceNext]_vars

\* C12: for every attack power, defense power and offset in [-0.15, 0.15] the
\* win chance is attack / (attack + defense) (0.5 when both are zero) plus the
\* offset, replaced by 0.10 when below it and by 0.90 when above it, so it
\* always lies within [0.10, 0.90].
C12_WinChanceClamped ==
    last.op = "win_chance" =>
      LET a == last.attack
          d == last.defense
          c == last.chance
          \* hundredths of the unclamped chance, times (a + d) or 1
          scale == IF a + d = 0 THEN 1 ELSE a + d
          x == IF a + d = 0 THEN 50 + last.offset
               ELSE 100 * a + last.offset * (a + d)
      IN  /\ c.den > 0
          /\ c.den <= 10 * c.num
          /\ 10 * c.num <= 9 * c.den
          /\ x < 10 * scale => c = [num |-> 1, den |-> 10]
          /\ x > 90 * scale => c = [num |-> 9, den |-> 10]
          /\ (10 * scale <= x /\ x <= 90 * scale)
               => c = [num |-> x, den |-> 100 * scale]

\* the chance of an attack far above the defense, clamped to 0.90
C12_LopsidedClamped ==
    /\ last.op = "win_chance"
    /\ last.attack = 100000
    /\ last.defense = 1
    /\ last.offset = 15
    /\ last.chance = [num |-> 9, den |-> 10]

\* ------------------------------------------------------------ raid outcomes
\* C13: across any sequence of raids a pet of rarity Mythical never changes
\* owner and is never the stolen_pet_id of a Raid record.
C13_MythicalNeverStolen ==
    [][\A p \in Pets : pets[p].rarity = "Mythical" =>
          /\ pets'[p].rarity = "Mythical"
          /\ pets'[p].owner_id = pets[p].owner_id
          /\ \A r \in DOMAIN raids' : raids'[r].stolen_pet_id # p
      ]_vars

\* a raid was won against a defender who holds a Mythical pet and nothing
\* else that can be stolen: nothing was stolen
C13_WonAgainstMythicalOnly ==
    \E r \in DOMAIN raids :
        /\ raids[r].result = "win"
        /\ raids[r].stolen_pet_id = None
        /\ \E p \in Pets : /\ pets[p].owner_id = raids[r].defender_id
                           /\ pets[p].rarity = "Mythical"
        /\ \A p \in Pets : pets[p].owner_id = raids[r].defender_id
                           => pets[p].rarity = "Mythical"

\* a step that appends a Raid record: an executed raid
ExecutedRaid == Len(raids') = Len(raids) + 1

\* the record an executed raid appends
NewRaid == raids'[Len(raids')]

Tallies(u) == <<u.raids_won, u.raids_lost, u.defenses_won, u.defenses_lost>>

\* the pets among `ids` that the attacker owns before the raid
OwnedBy(a, ids) == {p \in ids : pets[p].owner_id = a}

\* C14: every executed raid takes exactly 1 from the attacker's
\* free_raids_today and adds 1 to exactly one pair of tallies: on a win to the
\* attacker's raids_won and the defender's defenses_lost, the attacker getting
\* a shield until now + RAID_SHIELD_DURATION; on a loss to the attacker's
\* raids_lost and the defender's defenses_won, every attacking pet getting
\* fatigue_until = now + 2 hours; every other tally of every user is unchanged.
C14_RaidTallies ==
    [][ExecutedRaid =>
          LET a == NewRaid.attacker_id
              d == NewRaid.defender_id
              won == NewRaid.result = "win"
          IN  /\ a # d
              /\ NewRaid.result \in {"win", "lose"}
              /\ users'[a].free_raids_today = users[a].free_raids_today - 1
              /\ Tallies(users'[a]) =
                   <<users[a].raids_won + (IF won THEN 1 ELSE 0),
                     users[a].raids_lost + (IF won THEN 0 ELSE 1),
                     users[a].defenses_won, users[a].defenses_lost>>
              /\ Tallies(users'[d]) =
                   <<users[d].raids_won, users[d].raids_lost,
                     users[d].defenses_won + (IF won THEN 0 ELSE 1),
                     users[d].defenses_lost + (IF won THEN 1 ELSE 0)>>
              /\ \A u \in Users \ {a, d} : Tallies(users'[u]) = Tallies(users[u])
              /\ won => users'[a].raid_shield_until = now + RAID_SHIELD_DURATION
              /\ ~won =>
                   /\ users'[a].raid_shield_until = users[a].raid_shield_until
                   /\ \E ids \in RaidPetInputs :
                        /\ OwnedBy(a, ids) # {}
                        /\ NewRaid.attacker_power = pets_power(DB, OwnedBy(a, ids))
                        /\ \A p \in OwnedBy(a, ids) :
                             pets'[p].fatigue_until = now + RAID_FATIGUE_SECONDS
      ]_vars

\* a user has won one raid and lost another, the lost one with two pets
C14_WonAndLost ==
    \E i, j \in DOMAIN raids :
        /\ raids[i].attacker_id = raids[j].attacker_id
        /\ raids[i].result = "win"
        /\ raids[j].result = "lose"
        /\ users[raids[i].attacker_id].raids_won = 1
        /\ users[raids[i].attacker_id].raids_lost = 1
        /\ users[raids[i].attacker_id].free_raids_today = FREE_RAIDS_DEFAULT - 2
        /\ Cardinality({p \in Pets : pets[p].fatigue_until # None}) >= 2

\* a step in which a raid was executed: some user's tallies or free-raid
\* counter changed
RaidEffect ==
    \E u \in Users :
        \/ Tallies(users'[u]) # Tallies(users[u])
        \/ users'[u].free_raids_today # users[u].free_raids_today

\* C15: every executed raid, won or lost, appends exactly one Raid record that
\* holds the attack power, the defense power, the result and the stolen pet id
\* (or none); no step changes or removes a record that exists, so the log only
\* grows.
C15_RaidLogAppendOnly ==
    [][/\ Len(raids') \in {Len(raids), Len(raids) + 1}
       /\ \A i \in DOMAIN raids : raids'[i] = raids[i]
       /\ RaidEffect => ExecutedRaid
       /\ ExecutedRaid =>
            LET a == NewRaid.attacker_id
                d == NewRaid.defender_id
                moved == {p \in Pets : pets'[p].owner_id # pets[p].owner_id}
            IN  /\ NewRaid.timestamp = now
                /\ NewRaid.result \in {"win", "lose"}
                /\ NewRaid.result = "win" <=> users'[a].raids_won = users[a].raids_won + 1
                /\ \E ids \in RaidPetInputs :
                     /\ OwnedBy(a, ids) # {}
                     /\ NewRaid.attacker_power = pets_power(DB, OwnedBy(a, ids))
                /\ NewRaid.defender_power = calculate_total_defense_power(DB, d)
                /\ IF NewRaid.stolen_pet_id = None
                   THEN moved = {}
                   ELSE /\ moved = {NewRaid.stolen_pet_id}
                        /\ NewRaid.result = "win"
                        /\ pets[NewRaid.stolen_pet_id].owner_id = d
                        /\ pets'[NewRaid.stolen_pet_id].owner_id = a
      ]_vars

\* the log holds a lost raid followed by a won raid with a stolen pet
C15_LostThenWonWithSteal ==
    /\ Len(raids) = 2
    /\ raids[1].result = "lose"
    /\ raids[1].stolen_pet_id = None
    /\ raids[2].result = "win"
    /\ raids[2].stolen_pet_id # None
    /\ raids[2].defender_power > 0

Fatigued(p) == pets[p].fatigue_until # None /\ pets[p].fatigue_until > now

\* C16: a pet whose fatigue_until is in the future is blocked from raids:
\* the attacking pets of an executed raid (the supplied pets the attacker
\* owns, whose power the record holds) are never fatigued.
C16_FatiguedPetNeverAttacks ==
    [][ExecutedRaid =>
          \E ids \in RaidPetInputs :
              /\ OwnedBy(NewRaid.attacker_id, ids) # {}
              /\ NewRaid.attacker_power = pets_power(DB, OwnedBy(NewRaid.attacker_id, ids))
              /\ \A p \in OwnedBy(NewRaid.attacker_id, ids) : ~Fatigued(p)
      ]_vars

\* what the code does: the attacking pets are the supplied pets the attacker
\* owns, fatigued or not
C16_OwnedPetsAttack ==
    [][ExecutedRaid =>
          \E ids \in RaidPetInputs :
              /\ OwnedBy(NewRaid.attacker_id, ids) # {}
              /\ NewRaid.attacker_power = pets_power(DB, OwnedBy(NewRaid.attacker_id, ids))
              /\ last'.ret = NewRaid.result
      ]_vars

\* a user lost a raid and raided again before the fatigue of the first raid
\* ran out, with the same pets still fatigued
C16_RaidedWhileFatigued ==
    /\ Len(raids) = 2
    /\ raids[1].result = "lose"
    /\ raids[2].attacker_id = raids[1].attacker_id
    /\ raids[2].timestamp < raids[1].timestamp + RAID_FATIGUE_SECONDS
    /\ raids[2].attacker_power = raids[1].attacker_power
    /\ \A p \in Pets : pets[p].owner_id = raids[1].attacker_id
                       => pets[p].fatigue_until = raids[2].timestamp + RAID_FATIGUE_SECONDS
                          \/ pets[p].fatigue_until = raids[1].timestamp + RAID_FATIGUE_SECONDS

\* -------------------------------------------------------------------- traps
TrapTypeInputs == DOMAIN TRAP_TYPES \cup {"moat"}

\* a buy_trap that charges the base cost at every level
buy_trap_flat_cost(c, u, trap_type) ==
    IF trap_type \notin DOMAIN TRAP_TYPES
    THEN Ctx(c.s, c.d, "ValueError: Invalid trap type")
    ELSE
      LET user == c.s.users[u]
          current_level == user.traps[trap_type]
          cost == TRAP_TYPES[trap_type].cost
      IN  IF user.coins < cost THEN Ctx(c.s, c.d, "ValueError: Not enough coins")
          ELSE Commit([c.s EXCEPT !.users[u].coins = @ - cost,
                                  !.users[u].traps[trap_type] = current_level + 1],
                      "True")

\* user.traps.get(trap_type, 0) is the level held in traps[trap_type]
buy_trap(c, u, trap_type) ==
    IF trap_type \notin DOMAIN TRAP_TYPES
    THEN Ctx(c.s, c.d, "ValueError: Invalid trap type")
    ELSE
      LET user == c.s.users[u]
          current_level == user.traps[trap_type]
          cost == TRAP_TYPES[trap_type].cost * (current_level + 1)
      IN  IF user.coins < cost THEN Ctx(c.s, c.d, "ValueError: Not enough coins")
          ELSE Commit([c.s EXCEPT !.users[u].coins = @ - cost,
                                  !.users[u].traps[trap_type] = current_level + 1],
                      "True")

BuyTrapCall(watched, inputs) ==
    /\ \E in \in inputs :
         LET u == in[1]
             trap_type == in[2]
             r == buy_trap(Ctx(DB, DB, "none"), u, trap_type) IN
         /\ Store(r.d)
         /\ Log(watched, [op |-> "buy_trap", user |-> u, trap_type |-> trap_type,
                          ret |-> r.ret])
    /\ UNCHANGED <<now, sessions>>

WatchedBuyTrap == BuyTrapCall(TRUE, Users \X TrapTypeInputs)

TrapNext ==
    \/ WatchedBuyTrap

TrapCalls == Init /\ [][TrapNext]_vars

\* a watched buy_trap call
BoughtCall ==
    /\ last'.op = "buy_trap"
    /\ last' # last \/ users' # users

\* C17: buy_trap for a known trap type costs base cost * (current level + 1):
\* with at least that many coins it takes exactly that cost and raises that
\* trap's level by exactly 1, other trap levels unchanged; with fewer coins or
\* an unknown trap type it fails and changes no coin balance and no trap level.
C17_BuyTrapCost ==
    [][BoughtCall =>
          LET u == last'.user
              tt == last'.trap_type
              known == tt \in DOMAIN TRAP_TYPES
              cost == TRAP_TYPES[tt].cost * (users[u].traps[tt] + 1)
          IN  IF known /\ users[u].coins >= cost
              THEN /\ last'.ret = "True"
                   /\ users'[u].coins = users[u].coins - cost
                   /\ users'[u].traps[tt] = users[u].traps[tt] + 1
                   /\ \A o \in DOMAIN TRAP_TYPES \ {tt} :
                        users'[u].traps[o] = users[u].traps[o]
                   /\ \A v \in Users \ {u} : users'[v] = users[v]
                   /\ UNCHANGED <<pets, missions, raids>>
              ELSE /\ last'.ret = IF known THEN "ValueError: Not enough coins"
                                  ELSE "ValueError: Invalid trap type"
                   /\ UNCHANGED store
      ]_vars

\* a user holds a wall of level 2 and an alarm, with 200 coins left, and the
\* third level of the wall (300 coins) was refused
C17_UpgradeRefused ==
    /\ last.op = "buy_trap"
    /\ last.trap_type = "basic_wall"
    /\ last.ret = "ValueError: Not enough coins"
    /\ users[last.user].traps["basic_wall"] = 2
    /\ users[last.user].traps["alarm"] = 1
    /\ users[last.user].coins = 200

\* ------------------------------------------------------------ achievements
\* The achievements table as init_achievements seeds it; id = index.
ACHIEVEMENTS == <<
    [key |-> "first_pet", requirement_type |-> "pets_owned", requirement_value |-> 1,
     reward_coins |-> 100, reward_stars |-> 0],
    [key |-> "collector_5", requirement_type |-> "pets_owned", requirement_value |-> 5,
     reward_coins |-> 500, reward_stars |-> 0],
    [key |-> "collector_10", requirement_type |-> "pets_owned", requirement_value |-> 10,
     reward_coins |-> 2000, reward_stars |-> 50],
    [key |-> "rare_collector", requirement_type |-> "rare_pet_owned", requirement_value |-> 1,
     reward_coins |-> 1000, reward_stars |-> 25],
    [key |-> "legendary_owner", requirement_type |-> "legendary_pet_owned", requirement_value |-> 1,
     reward_coins |-> 5000, reward_stars |-> 100],
    [key |-> "first_mission", requirement_type |-> "missions_completed", requirement_value |-> 1,
     reward_coins |-> 100, reward_stars |-> 0],
    [key |-> "mission_veteran_10", requirement_type |-> "missions_completed", requirement_value |-> 10,
     reward_coins |-> 500, reward_stars |-> 0],
    [key |-> "mission_expert_50", requirement_type |-> "missions_completed", requirement_value |-> 50,
     reward_coins |-> 3000, reward_stars |-> 50],
    [key |-> "mission_master_100", requirement_type |-> "missions_completed", requirement_value |-> 100,
     reward_coins |-> 10000, reward_stars |-> 150],
    [key |-> "first_raid", requirement_type |-> "raids_attempted", requirement_value |-> 1,
     reward_coins |-> 200, reward_stars |-> 0],
    [key |-> "raid_winner_10", requirement_type |-> "raids_won", requirement_value |-> 10,
     reward_coins |-> 1000, reward_stars |-> 25],
    [key |-> "raid_master_50", requirement_type |-> "raids_won", requirement_value |-> 50,
     reward_coins |-> 5000, reward_stars |-> 100],
    [key |-> "defender_10", requirement_type |-> "defenses_won", requirement_value |-> 10,
     reward_coins |-> 1000, reward_stars |-> 25],
    [key |-> "fortress_50", requirement_type |-> "defenses_won", requirement_value |-> 50,
     reward_coins |-> 5000, reward_stars |-> 100],
    [key |-> "rich_10k", requirement_type |-> "coins_earned", requirement_value |-> 10000,
     reward_coins |-> 500, reward_stars |-> 0],
    [key |-> "rich_100k", requirement_type |-> "coins_earned", requirement_value |-> 100000,
     reward_coins |-> 5000, reward_stars |-> 100],
    [key |-> "millionaire", requirement_type |-> "coins_earned", requirement_value |-> 1000000,
     reward_coins |-> 50000, reward_stars |-> 500],
    [key |-> "level_10", requirement_type |-> "level_reached", requirement_value |-> 10,
     reward_coins |-> 1000, reward_stars |-> 25],
    [key |-> "level_25", requirement_type |-> "level_reached", requirement_value |-> 25,
     reward_coins |-> 5000, reward_stars |-> 100],
    [key |-> "level_50", requirement_type |-> "level_reached", requirement_value |-> 50,
     reward_coins |-> 20000, reward_stars |-> 250],
    [key |-> "max_level_pet", requirement_type |-> "max_level_pet", requirement_value |-> 1,
     reward_coins |-> 10000, reward_stars |-> 200],
    [key |-> "trader", requirement_type |-> "trades_completed", requirement_value |-> 10,
     reward_coins |-> 2000, reward_stars |-> 50],
    [key |-> "shiny_hunter", requirement_type |-> "shiny_pet_owned", requirement_value |-> 1,
     reward_coins |-> 5000, reward_stars |-> 150] >>

\* select(Achievement).where(requirement_type == achievement_type), by id
achievements_of_type(achievement_type) ==
    SelectSeq([i \in 1..Len(ACHIEVEMENTS) |-> i],
              LAMBDA a : ACHIEVEMENTS[a].requirement_type = achievement_type)

\* AchievementProgress(user_id, achievement_id, current_value=0): until the
\* row is flushed `completed` is None, which the code reads as false
NewProgress == [current_value |-> 0, completed |-> FALSE, completed_at |-> None]

\* lines 36-52: the progress row of the user for the achievement, added to
\* the session when the table has none
get_or_create_progress(s, user_id, a) ==
    IF <<user_id, a>> \in DOMAIN s.progress THEN s
    ELSE [s EXCEPT !.progress = (<<user_id, a>> :> NewProgress) @@ @]

\* lines 66-70: the rewards of the achievement go to the user, when the user
\* exists
give_rewards_coins_only(s, user_id, a) ==
    IF user_id \in DOMAIN s.users
    THEN [s EXCEPT !.users[user_id].coins = @ + ACHIEVEMENTS[a].reward_coins]
    ELSE s

give_rewards(s, user_id, a) ==
    IF user_id \in DOMAIN s.users
    THEN [s EXCEPT !.users[user_id].coins = @ + ACHIEVEMENTS[a].reward_coins,
                   !.users[user_id].stars = @ + ACHIEVEMENTS[a].reward_stars]
    ELSE s

\* The body of the loop without the test of line 55
update_progress_of_completed_too(st, user_id, a, value_increment, t) ==
    LET s1 == get_or_create_progress(st.s, user_id, a)
        k == <<user_id, a>>
        v == s1.progress[k].current_value + value_increment
        s2 == [s1 EXCEPT !.progress[k].current_value = v]
    IN  IF v >= ACHIEVEMENTS[a].requirement_value
        THEN [s |-> give_rewards([s2 EXCEPT !.progress[k].completed = TRUE,
                                            !.progress[k].completed_at = t],
                                 user_id, a),
              newly_completed |-> Append(st.newly_completed, a)]
        ELSE [s |-> s2, newly_completed |-> st.newly_completed]

\* The body of the loop (lines 35-75) for one achievement: st is the session
\* and the list of the achievements completed so far
update_progress(st, user_id, a, value_increment, t) ==
    LET s1 == get_or_create_progress(st.s, user_id, a)
        k == <<user_id, a>>
    IN  IF s1.progress[k].completed
        THEN [s |-> s1, newly_completed |-> st.newly_completed]
        ELSE LET v == s1.progress[k].current_value + value_increment
                 s2 == [s1 EXCEPT !.progress[k].current_value = v]
             IN  IF v >= ACHIEVEMENTS[a].requirement_value
                 THEN [s |-> give_rewards(
                                [s2 EXCEPT !.progress[k].completed = TRUE,
                                           !.progress[k].completed_at = t],
                                user_id, a),
                       newly_completed |-> Append(st.newly_completed, a)]
                 ELSE [s |-> s2, newly_completed |-> st.newly_completed]

RECURSIVE update_all(_, _, _, _, _)
update_all(st, user_id, as, value_increment, t) ==
    IF as = <<>> THEN st
    ELSE update_all(update_progress(st, user_id, Head(as), value_increment, t),
                    user_id, Tail(as), value_increment, t)

\* AchievementService.check_and_update_achievements: ret is the list of the
\* achievements completed by this call
check_and_update_achievements(c, user_id, achievement_type, value_increment, t) ==
    LET st == update_all([s |-> c.s, newly_completed |-> <<>>], user_id,
                         achievements_of_type(achievement_type),
                         value_increment, t)
    IN  Commit(st.s, st.newly_completed)

\* The calls: user 1 with each metric (pets_owned of handlers/pets.py:91 and
\* handlers/start.py:53, a raid, and a metric of no achievement) and each
\* increment (the zero of handlers/missions.py:58, one, and a batch of ten);
\* user 2 with one pet or ten
MetricInputs == {"pets_owned", "raids_attempted", "pets_sold"}
IncrementInputs == {0, 1, 10}
AchievementInputs ==
    ({1} \X MetricInputs \X IncrementInputs) \cup ({2} \X {"pets_owned"} \X {1, 10})

CheckAchievementsCall(watched) ==
    /\ \E in \in AchievementInputs :
         LET r == check_and_update_achievements(Ctx(DB, DB, "none"),
                                                in[1], in[2], in[3], now) IN
         /\ Store(r.d)
         /\ Log(watched, [op |-> "check_and_update_achievements", user |-> in[1],
                          achievement_type |-> in[2], value_increment |-> in[3],
                          ret |-> r.ret])
    /\ UNCHANGED <<now, sessions>>

WatchedAchievements == CheckAchievementsCall(TRUE)

AchievementNext == WatchedAchievements

AchievementCalls == Init /\ [][AchievementNext]_vars

\* The achievements of a metric, the total of a reward over a set of
\* achievements, and the step of a call of check_and_update_achievements
\* (the only steps of AchievementCalls that leave the clock alone)
OfMetric(m) == Range(achievements_of_type(m))

RECURSIVE TotalReward(_, _)
TotalReward(S, field) ==
    IF S = {} THEN 0
    ELSE LET a == CHOOSE x \in S : TRUE
         IN  ACHIEVEMENTS[a][field] + TotalReward(S \ {a}, field)

AchievementCall ==
    /\ now' = now
    /\ last'.op = "check_and_update_achievements"

CompletedBefore(u, a) ==
    <<u, a>> \in DOMAIN progress /\ progress[<<u, a>>].completed

\* C18: a completed progress record is final.  In every call of
\* check_and_update_achievements, whatever the increment, every record that
\* was completed before the call is left exactly as it was (its
\* current_value, its flag and its completion time), the achievements of the
\* called metric that the user had completed are not in the returned list,
\* and the coins and stars of the user grow by the rewards of the
\* achievements that were not completed before and are completed after, so
\* the reward of a completed one is not granted again.
C18_CompletedIsFinal ==
    [][AchievementCall =>
         LET u == last'.user
             done == {a \in OfMetric(last'.achievement_type) : CompletedBefore(u, a)}
             fresh == {a \in OfMetric(last'.achievement_type) \ done :
                          progress'[<<u, a>>].completed}
         IN  /\ \A k \in DOMAIN progress :
                   progress[k].completed =>
                       k \in DOMAIN progress' /\ progress'[k] = progress[k]
             /\ \A a \in done : a \notin Range(last'.ret)
             /\ users'[u].coins = users[u].coins + TotalReward(fresh, "reward_coins")
             /\ users'[u].stars = users[u].stars + TotalReward(fresh, "reward_stars")
             /\ (done = OfMetric(last'.achievement_type) => users' = users)
      ]_vars

\* C18 witness: user 1 completed the three pets_owned achievements (2600
\* coins of rewards), and the last call added 10 to pets_owned and returned
\* nothing, with the counters where the completing calls left them.
C18_CalledAfterCompletion ==
    /\ last.op = "check_and_update_achievements"
    /\ last.user = 1 /\ last.achievement_type = "pets_owned"
    /\ last.value_increment = 10 /\ last.ret = <<>>
    /\ \A a \in OfMetric("pets_owned") : CompletedBefore(1, a)
    /\ progress[<<1, 1>>].current_value = 1
    /\ progress[<<1, 2>>].current_value = 5
    /\ users[1].coins = STARTING_COINS + 2600

\* The counter of the user for the achievement before the call: a missing
\* record counts from 0
ValueBefore(u, a) ==
    IF <<u, a>> \in DOMAIN progress THEN progress[<<u, a>>].current_value ELSE 0

\* C19: a call of check_and_update_achievements for a user, a metric and an
\* increment leaves a progress record for every achievement of the metric
\* (created at 0 when it was absent); every record that was not completed
\* has its counter raised by the increment and is completed exactly when the
\* raised counter reaches the threshold of the definition; the returned list
\* holds exactly the achievements completed by this call, each once; the
\* user receives the coins and the stars of exactly those; the records of
\* other users and other metrics are left alone; and after the call a
\* record is completed if and only if its counter has reached the threshold.
C19_ProgressAndRewards ==
    [][AchievementCall =>
         LET u == last'.user
             v == last'.value_increment
             open == {a \in OfMetric(last'.achievement_type) : ~CompletedBefore(u, a)}
             reached == {a \in open :
                            ValueBefore(u, a) + v >= ACHIEVEMENTS[a].requirement_value}
         IN  /\ DOMAIN progress' =
                    DOMAIN progress \cup {<<u, a>> : a \in OfMetric(last'.achievement_type)}
             /\ \A a \in open :
                    /\ progress'[<<u, a>>].current_value = ValueBefore(u, a) + v
                    /\ progress'[<<u, a>>].completed = (a \in reached)
             /\ \A k \in DOMAIN progress :
                    (k[1] # u \/ k[2] \notin open) => progress'[k] = progress[k]
             /\ Range(last'.ret) = reached
             /\ Len(last'.ret) = Cardinality(reached)
             /\ users'[u].coins = users[u].coins + TotalReward(reached, "reward_coins")
             /\ users'[u].stars = users[u].stars + TotalReward(reached, "reward_stars")
             /\ \A w \in DOMAIN users : w # u => users'[w] = users[w]
             /\ \A k \in DOMAIN progress' :
                    progress'[k].completed <=>
                        progress'[k].current_value >= ACHIEVEMENTS[k[2]].requirement_value
      ]_vars

\* C19 witness: one increment of ten took user 1 over the three pets_owned
\* thresholds at once, after four single pets: the call returned the second
\* and third achievement and their rewards (2500 coins, 50 stars) were added
\* to those of the first.
C19_SeveralThresholdsCrossed ==
    /\ last.op = "check_and_update_achievements"
    /\ last.user = 1 /\ last.achievement_type = "pets_owned"
    /\ last.value_increment = 10 /\ last.ret = <<2, 3>>
    /\ progress[<<1, 1>>].current_value = 1
    /\ progress[<<1, 2>>].current_value = 14
    /\ progress[<<1, 3>>].current_value = 14
    /\ users[1].coins = STARTING_COINS + 100 + 500 + 2000
    /\ users[1].stars = 50 + 50
    /\ <<1, 10>> \in DOMAIN progress /\ progress[<<1, 10>>].current_value = 0

\* ------------------------------------------------------------ experience
\* Direct calls of PetService.add_exp_to_pet: amounts below, at and far above
\* the 110 experience points that level 1 requires
ExpPets == {1, 2}
ExpInputs == {0, 10, 50, 110, 100000}

AddExpCall(watched) ==
    /\ \E p \in ExpPets, x \in ExpInputs :
         LET r == add_exp_to_pet(Ctx(DB, DB, "none"), p, x) IN
         /\ Store(r.d)
         /\ Log(watched, [op |-> "add_exp_to_pet", pet |-> p, exp_amount |-> x,
                          ret |-> r.ret, value |-> r.value])
    /\ UNCHANGED <<now, sessions>>

WatchedAddExp == AddExpCall(TRUE)

ExpNext == WatchedAddExp

ExpCalls == Init /\ [][ExpNext]_vars

\* C20 as stated: every call of add_exp_to_pet returns without an error and
\* leaves the pet at a level no higher than the configured maximum; a pet at
\* the maximum keeps its level and keeps the added experience.
C20_LevelCappedWithoutError ==
    [][last'.op = "add_exp_to_pet" =>
         LET p == last'.pet IN
         /\ last'.ret = "ok"
         /\ pets'[p].level <= max_pet_level
         /\ (pets[p].level >= max_pet_level =>
                /\ pets'[p].level = pets[p].level
                /\ pets'[p].exp = pets[p].exp + last'.exp_amount)
      ]_vars

\* C20, what the code does: a call whose amount leaves the experience below
\* the requirement of the pet's level stores the sum and returns; any other
\* call raises AttributeError at the loop test and stores nothing.  No call
\* changes a level, so no level exceeds the maximum.
C20_LevelUpRaises ==
    [][last'.op = "add_exp_to_pet" =>
         LET p == last'.pet
             sum == pets[p].exp + last'.exp_amount
         IN  /\ pets'[p].level = pets[p].level
             /\ pets'[p].level <= max_pet_level
             /\ IF sum < calculate_level_up_requirements(pets[p].level)
                THEN /\ last'.ret = "ok"
                     /\ pets' = [pets EXCEPT ![p].exp = sum]
                ELSE /\ last'.ret = "AttributeError"
                     /\ pets' = pets
             /\ UNCHANGED <<users, missions, raids, progress>>
      ]_vars

\* C20 witness: pet 1 collected 100 experience points at level 1, and the
\* call that would have brought it to the 110 of level 2 raised.
C20_RaisedAtLevelUp ==
    /\ last.op = "add_exp_to_pet" /\ last.pet = 1 /\ last.exp_amount = 10
    /\ last.ret = "AttributeError"
    /\ pets[1].exp = 100 /\ pets[1].level = 1

\* A call of add_exp_to_pet for a pet with no stored experience, with exactly
\* the requirement of the pet's level
ExactRequirementCall ==
    /\ last'.op = "add_exp_to_pet"
    /\ pets[last'.pet].exp = 0
    /\ last'.exp_amount = calculate_level_up_requirements(pets[last'.pet].level)

\* C21 as stated: a call with exactly the requirement of the level, for a pet
\* without stored experience, gains exactly one level and leaves no
\* experience, adds 2 to the power, sets the income to floor(income * 1.05),
\* and raises the evolution stage only when the new level is an evolution
\* level.
C21_ExactRequirementGainsOneLevel ==
    [][ExactRequirementCall =>
         LET p == last'.pet IN
         /\ last'.ret = "ok"
         /\ last'.value.levels_gained = 1
         /\ pets'[p].level = pets[p].level + 1
         /\ pets'[p].exp = 0
         /\ pets'[p].power = pets[p].power + 2
         /\ pets'[p].income_per_hour = (pets[p].income_per_hour * 105) \div 100
         /\ pets'[p].evolution_stage =
                IF pets[p].level + 1 \in EVOLUTION_LEVELS
                THEN pets[p].evolution_stage + 1
                ELSE pets[p].evolution_stage
      ]_vars

\* C21, what the code does: the call with exactly the requirement raises
\* AttributeError at the loop test, returns nothing, and the pet keeps its
\* level, its power, its income, its evolution stage and its zero experience.
C21_ExactRequirementRaises ==
    [][ExactRequirementCall =>
         /\ last'.ret = "AttributeError"
         /\ last'.value = <<>>
         /\ pets' = pets
      ]_vars

\* C21 witness: pet 2 (level 1, no experience) was given exactly 110 points
\* and the call raised.
C21_RaisedAtExactRequirement ==
    /\ last.op = "add_exp_to_pet" /\ last.pet = 2
    /\ last.exp_amount = calculate_level_up_requirements(pets[2].level)
    /\ last.ret = "AttributeError"
    /\ pets[2].exp = 0 /\ pets[2].level = 1 /\ pets[2].power = 25

\* C22 as stated: every call of add_exp_to_pet returns its dictionary, in
\* which evolved is true exactly when the evolution stage of the pet rose in
\* the call and levels_gained is the level after the call minus the level
\* before; a call whose experience reaches the requirement gains a level.
C22_EvolvedIffStageRose ==
    [][last'.op = "add_exp_to_pet" =>
         LET p == last'.pet IN
         /\ last'.ret = "ok"
         /\ last'.value.evolved <=> (pets'[p].evolution_stage > pets[p].evolution_stage)
         /\ last'.value.levels_gained = pets'[p].level - pets[p].level
         /\ (can_level_up(pets[p].exp + last'.exp_amount, pets[p].level)
                => last'.value.levels_gained >= 1)
      ]_vars

\* C22, what the code does: a call returns only when the experience stays
\* below the requirement, and then with levels_gained 0, evolved false and
\* the level, power and income the pet already had; a call that would gain
\* one level or several raises and returns no dictionary.  No call changes a
\* level or an evolution stage.
C22_ReturnsOnlyWithoutLevelUp ==
    [][last'.op = "add_exp_to_pet" =>
         LET p == last'.pet IN
         /\ pets'[p].evolution_stage = pets[p].evolution_stage
         /\ pets'[p].level = pets[p].level
         /\ IF can_level_up(pets[p].exp + last'.exp_amount, pets[p].level)
            THEN last'.ret = "AttributeError" /\ last'.value = <<>>
            ELSE /\ last'.ret = "ok"
                 /\ last'.value = [levels_gained |-> 0,
                                   new_level |-> pets[p].level,
                                   new_power |-> pets[p].power,
                                   new_income |-> pets[p].income_per_hour,
                                   evolved |-> FALSE]
      ]_vars

\* C22 witness: pet 1 held 60 experience points and was given 100000, enough
\* for many levels at once and for the evolution level 10; the call raised.
C22_RaisedAtSeveralLevels ==
    /\ last.op = "add_exp_to_pet" /\ last.pet = 1 /\ last.exp_amount = 100000
    /\ last.ret = "AttributeError" /\ last.value = <<>>
    /\ pets[1].exp = 60 /\ pets[1].level = 1 /\ pets[1].evolution_stage = 0

\* ------------------------------------------------- calls, commit by commit
\* A call that commits more than once is a sequence of steps, one for each
\* commit, and between two of them what it has committed is in the store.
\* The session factory is made with expire_on_commit=False (db.py:37-41), so
\* a row that a session has loaded stays in the session as it was loaded,
\* with the session's own edits, whatever other sessions commit meanwhile;
\* a query reads the store.  A commit writes the attributes the session has
\* edited and the rows it has added, and nothing else.

\* a session that reads every row again from the store
SessionViewRefreshed(ss) == DB

\* The rows as a session sees them: the store, and for the users it has
\* loaded the rows it holds
SessionView(ss) ==
    [DB EXCEPT !.users = [u \in DOMAIN users |->
                            IF u \in DOMAIN ss.users THEN ss.users[u] ELSE users[u]]]

\* What a commit leaves in the store, for a session that saw `v` and has
\* edited it to `s`: the edited attributes of users, pets and missions, and
\* the added missions and raids
Flush(v, s) ==
    [users |-> [u \in DOMAIN users |-> [f \in DOMAIN users[u] |->
                   IF s.users[u][f] # v.users[u][f] THEN s.users[u][f]
                   ELSE users[u][f]]],
     pets |-> [p \in DOMAIN pets |-> [f \in DOMAIN pets[p] |->
                   IF s.pets[p][f] # v.pets[p][f] THEN s.pets[p][f]
                   ELSE pets[p][f]]],
     missions |-> [i \in DOMAIN missions |-> [f \in DOMAIN missions[i] |->
                   IF i \in DOMAIN v.missions /\ s.missions[i][f] # v.missions[i][f]
                   THEN s.missions[i][f] ELSE missions[i][f]]]
                  \o SubSeq(s.missions, Len(v.missions) + 1, Len(s.missions)),
     raids |-> raids \o SubSeq(s.raids, Len(v.raids) + 1, Len(s.raids)),
     progress |-> progress]

\* the raids that are logged or on their way
RaidsBegun ==
    Len(raids) + Cardinality({i \in SessionIds : sessions[i].pc \in {"checked", "fought"}})

\* execute_raid, line 87: can_raid_target, which commits the stamp of a first
\* check; the session keeps the attacker and the defender it has loaded
RaidCheck(sid, limit, pairs) ==
    /\ sessions[sid].pc = "idle"
    /\ RaidsBegun < limit
    /\ \E pair \in pairs, ids \in RaidPetInputs :
         LET a == pair[1]
             d == pair[2]
             chk == can_raid_target(Ctx(DB, DB, "none"), a, d, now) IN
         /\ Store(chk.d)
         /\ sessions' =
              IF chk.ret = "ok"
              THEN [sessions EXCEPT ![sid] =
                      [pc |-> "checked", attacker |-> a, defender |-> d,
                       pet_ids |-> ids,
                       users |-> [u \in {a, d} |-> chk.s.users[u]]]]
              ELSE sessions
    /\ UNCHANGED <<now, last>>

\* execute_raid, lines 91-169: the pets are loaded, the powers computed, and
\* transfer_pet or set_pet_fatigue commits what it has done to the pets
RaidFight(sid) ==
    /\ sessions[sid].pc = "checked"
    /\ LET ss == sessions[sid]
           v == SessionView(ss)
           stealable == get_stealable_pets(DB, ss.defender) IN
       \E success \in BOOLEAN,
          target \in (IF stealable = {} THEN {None} ELSE stealable),
          draw \in LoyaltyDraws(stealable) :
         LET f == raid_fight(Ctx(v, v, "none"), ss.attacker, ss.defender,
                             ss.pet_ids, success, target, draw, now) IN
         IF f.out.ret # "fought"
         THEN /\ sessions' = [sessions EXCEPT ![sid] = Idle]
              /\ UNCHANGED store
         ELSE /\ Store(Flush(v, f.out.d))
              /\ sessions' = [sessions EXCEPT ![sid] =
                                [pc |-> "fought", attacker |-> ss.attacker,
                                 defender |-> ss.defender, users |-> ss.users,
                                 raid |-> f.raid]]
    /\ UNCHANGED <<now, last>>

\* execute_raid, lines 144-200: the shield, the tallies and the free raid on
\* the rows the session holds, the Raid record, and the last commit
RaidFinish(sid) ==
    /\ sessions[sid].pc = "fought"
    /\ LET ss == sessions[sid]
           v == SessionView(ss)
           s == raid_settle(v, [ss.raid EXCEPT !.timestamp = now], now) IN
       /\ Store(Flush(v, s))
       /\ sessions' = [sessions EXCEPT ![sid] = Idle]
    /\ UNCHANGED <<now, last>>

\* complete_mission up to its first commit: a call that raises, or that
\* draws a failure, is over with it; a success has credited the user and
\* the pet (add_exp_to_pet has committed) and goes on
MissionCredit(sid) ==
    /\ sessions[sid].pc = "idle"
    /\ \E m \in DOMAIN missions, success \in BOOLEAN :
         LET c == Ctx(DB, DB, "none")
             due == missions[m].status = "active" /\ missions[m].complete_at <= now
             r == IF due /\ success THEN credit_mission(c, m)
                  ELSE complete_mission(c, m, success, now) IN
         /\ Store(r.d)
         /\ sessions' =
              IF due /\ success /\ r.ret = "ok"
              THEN [sessions EXCEPT ![sid] =
                      [pc |-> "credited", mission |-> m, s |-> r.s]]
              ELSE sessions
    /\ UNCHANGED <<now, last>>

\* complete_mission, lines 116-147 of a success: the status, the pet's flag,
\* and the last commit
MissionFinish(sid) ==
    /\ sessions[sid].pc = "credited"
    /\ LET ss == sessions[sid] IN
       /\ Store(Flush(ss.s, close_mission(ss.s, ss.mission).s))
       /\ sessions' = [sessions EXCEPT ![sid] = Idle]
    /\ UNCHANGED <<now, last>>

\* Missions and raids in one session at a time, commit by commit: quick
\* missions, and raids between users 1 and 2
StepMissionCredit == MissionCredit(1)
StepMissionFinish == MissionFinish(1)
StepRaidCheck == RaidCheck(1, MaxRaids, {<<1, 2>>, <<2, 1>>})
StepRaidFight == RaidFight(1)
StepRaidFinish == RaidFinish(1)

StepNext ==
    \/ QuickMission
    \/ StepMissionCredit
    \/ StepMissionFinish
    \/ StepRaidCheck
    \/ StepRaidFight
    \/ StepRaidFinish
    \/ Tick

CommitSteps == Init /\ [][StepNext]_vars

\* What a step has persisted
RaidLogged == Len(raids') = Len(raids) + 1
MissionResolved == \E m \in DOMAIN missions : missions'[m].status # missions[m].status
PetMoved == \E p \in Pets : pets'[p].owner_id # pets[p].owner_id
PetFatigued == \E p \in Pets : pets'[p].fatigue_until # pets[p].fatigue_until
PetCredited == \E p \in Pets : pets'[p].exp # pets[p].exp
UserCredited == \E u \in Users : users'[u].coins # users[u].coins \/ users'[u].exp # users[u].exp
ResetStamped == \E u \in Users : users'[u].last_raid_reset # users[u].last_raid_reset
RaidTallied == \E u \in Users : Tallies(users'[u]) # Tallies(users[u])
                                \/ users'[u].free_raids_today # users[u].free_raids_today

\* C23 as stated: whatever a commit persists of a complete_mission or an
\* execute_raid, it persists the rest of it with it.  A commit that credits
\* mission coins or experience also resolves the mission; a commit that moves
\* a stolen pet, stamps the daily reset or fatigues the pets of a lost raid
\* also logs the raid.
C23_CommittedTogether ==
    [][/\ (UserCredited \/ PetCredited) => MissionResolved
       /\ (PetMoved \/ ResetStamped) => RaidLogged
       /\ PetFatigued => (RaidLogged \/ MissionResolved)
      ]_vars

\* The first owners of the pets, and the store of a program with no call
\* between two commits: every pet with a new owner is the stolen pet of a won
\* raid, every attacker has a tally and a spent free raid for each of its
\* raids, and every user has the coins of its resolved missions
FirstOwner == (1 :> 1 @@ 2 :> 2 @@ 3 :> 2 @@ 4 :> 3)

RaidsOf(u) == {i \in DOMAIN raids : raids[i].attacker_id = u}

MissionCoins(i) ==
    IF missions[i].status = "completed" THEN missions[i].reward_coins
    ELSE IF missions[i].status = "failed" THEN (missions[i].reward_coins * 2) \div 10
    ELSE 0

Whole ==
    /\ \A p \in Pets :
          pets[p].owner_id # FirstOwner[p] =>
              \E i \in DOMAIN raids : /\ raids[i].stolen_pet_id = p
                                      /\ raids[i].result = "win"
                                      /\ raids[i].attacker_id = pets[p].owner_id
    /\ \A p \in Pets :
          (pets[p].fatigue_until # None
           /\ ~\E i \in DOMAIN missions : missions[i].pet_id = p
                                          /\ missions[i].status = "failed")
              => \E i \in DOMAIN raids : /\ raids[i].result = "lose"
                                         /\ raids[i].attacker_id = pets[p].owner_id
    /\ \A u \in Users :
          /\ users[u].raids_won + users[u].raids_lost = Cardinality(RaidsOf(u))
          /\ users[u].free_raids_today = FREE_RAIDS_DEFAULT - Cardinality(RaidsOf(u))
          /\ users[u].coins = STARTING_COINS
                + SumOver({i \in DOMAIN missions : missions[i].user_id = u},
                          [i \in DOMAIN missions |-> MissionCoins(i)])
    /\ \A i \in DOMAIN missions :
          pets[missions[i].pet_id].is_on_mission => missions[i].status = "active"
             \/ \E j \in DOMAIN missions : /\ missions[j].pet_id = missions[i].pet_id
                                           /\ missions[j].status = "active"

\* C23, what the code does: execute_raid commits up to three times (the
\* stamp of a first check; the stolen pet or the fatigue; the Raid record
\* with the tallies and the free raid) and a successful complete_mission
\* twice (the credits; the status and the pet's flag).  Each commit persists
\* its part alone, and the store is whole again when the call is over.
C23_CommitByCommit ==
    /\ [](sessions[1].pc = "idle" => Whole)
    /\ [][/\ (PetMoved \/ ResetStamped \/ (PetFatigued /\ ~MissionResolved))
                => (~RaidLogged /\ ~RaidTallied)
          /\ RaidLogged => (RaidTallied /\ pets' = pets)
          /\ (sessions[1].pc = "idle" /\ sessions'[1].pc = "credited")
                => (UserCredited /\ PetCredited /\ ~MissionResolved)
          /\ (sessions[1].pc = "credited" /\ sessions'[1].pc = "idle")
                => (MissionResolved /\ ~UserCredited /\ ~PetCredited)
         ]_vars

\* C23 witness: user 1 has won a raid on user 2 and the stolen pet 2 is
\* committed as a pet of user 1, while no Raid record, no tally and no spent
\* free raid is in the store: the call is before its last commit.
C23_PetMovedBeforeRaidLogged ==
    /\ sessions[1].pc = "fought" /\ sessions[1].raid.stolen_pet_id = 2
    /\ pets[2].owner_id = 1
    /\ raids = <<>>
    /\ users[1].raids_won = 0 /\ users[1].free_raids_today = FREE_RAIDS_DEFAULT

\* ------------------------------------------------------- concurrent raids
\* Two sessions of user 1 (two updates of the same user handled at once):
\* the first raids user 2, the second user 3, and the clock moves by the
\* cooldown, within one day
FirstRaidCheck == RaidCheck(1, MaxConcurrentRaids, {<<1, 2>>})
SecondRaidCheck == RaidCheck(2, MaxConcurrentRaids, {<<1, 3>>})
SecondRaidFight == RaidFight(2)
SecondRaidFinish == RaidFinish(2)

CooldownTick ==
    /\ now + RAID_COOLDOWN <= MaxCooldowns * RAID_COOLDOWN
    /\ now' = now + RAID_COOLDOWN
    /\ UNCHANGED <<store, sessions, last>>

ConcurrentNext ==
    \/ FirstRaidCheck
    \/ StepRaidFight
    \/ StepRaidFinish
    \/ SecondRaidCheck
    \/ SecondRaidFight
    \/ SecondRaidFinish
    \/ CooldownTick

ConcurrentRaids == Init /\ [][ConcurrentNext]_vars

\* The raids of a user on the day of the clock
RaidsToday(u) ==
    {i \in DOMAIN raids : raids[i].attacker_id = u /\ Date(raids[i].timestamp) = Date(now)}

\* C24: the free-raid check reads the committed counter and the last commit
\* writes the counter the session has loaded minus one.  A session that has
\* passed the check logs its raid and writes that value whatever another
\* session of the same attacker has committed since, so the counter can stay
\* above the free raids that are left, and it never falls below them.
C24_CheckedRaidIsLogged ==
    /\ [][\A sid \in SessionIds :
            (sessions[sid].pc = "fought" /\ sessions'[sid].pc = "idle") =>
                LET a == sessions[sid].attacker IN
                /\ RaidLogged
                /\ sessions[sid].users[a].free_raids_today > 0
                /\ users'[a].free_raids_today
                       = sessions[sid].users[a].free_raids_today - 1
         ]_vars
    /\ [](users[1].free_raids_today + Cardinality(RaidsToday(1)) >= FREE_RAIDS_DEFAULT)

\* C24 witness: user 1 has executed six raids on one day, one more than the
\* five free raids, and the counter still shows free raids left.
C24_MoreRaidsThanFreeRaids ==
    /\ Cardinality(RaidsToday(1)) > FREE_RAIDS_DEFAULT
    /\ users[1].last_raid_reset # None
    /\ Date(users[1].last_raid_reset) = Date(now)
    /\ users[1].free_raids_today > 0
    /\ \A i \in SessionIds : sessions[i].pc = "idle"

\* A watched run of the sweep, and what a second run started in the state it
\* leaves (same clock, nothing in between) would store, for every order of the
\* rows and every draw
SweepRun == last' # last /\ last'.op = "sweep"

SecondRuns ==
    LET ready == ready_missions(DB', now') IN
    {check_and_autocomplete_missions(Ctx(DB', DB', "none"), order, success, now').d :
        order \in Orders(ready), success \in [ready -> BOOLEAN]}

\* C25 as stated: a second run of check_and_autocomplete_missions right after
\* a run changes nothing, whatever it draws.
C25_SecondRunChangesNothing ==
    [][SweepRun => SecondRuns = {DB'}]_vars

\* C25, what the code does: after a run the missions that are still due are
\* those whose complete_mission raised.  When none raised a second run finds
\* no candidate and changes nothing; when one raised, a second run attempts
\* it again and, on a failure draw, resolves it and pays its reduced coins.
C25_SecondRunRetriesRaised ==
    [][SweepRun =>
         LET raised == {last'.order[i] : i \in {j \in DOMAIN last'.ret :
                                                  last'.ret[j] = "AttributeError"}}
         IN  /\ ready_missions(DB', now') = raised
             /\ (raised = {} => SecondRuns = {DB'})
             /\ (raised # {} =>
                   \E d \in SecondRuns :
                     \E m \in raised :
                        /\ d.missions[m].status = "failed"
                        /\ d.users[missions'[m].user_id].coins
                              >= users'[missions'[m].user_id].coins
                                 + (missions'[m].reward_coins * 2) \div 10)
      ]_vars

\* C25 witness: a run has just ended with an AttributeError for mission 1,
\* which is still active and due.
C25_RaisedMissionStillDue ==
    /\ last.op = "sweep"
    /\ last.order = <<1>> /\ last.ret = <<"AttributeError">>
    /\ missions[1].status = "active" /\ missions[1].complete_at <= now
    /\ pets[missions[1].pet_id].is_on_mission

\* ==================================================================== eggs
\* Registration and egg purchases add rows to the users and pets tables.

MaxEggs == 2
MaxSlotEggs == 4
MaxPaidEggs == 1

EGG_COSTS ==
    [common    |-> [coins |-> 50, stars |-> 0],
     rare      |-> [coins |-> 0,  stars |-> 100],
     epic      |-> [coins |-> 0,  stars |-> 250],
     legendary |-> [coins |-> 0,  stars |-> 500],
     mythical  |-> [coins |-> 0,  stars |-> 1000]]

\* the egg types of the egg shop's buttons and one that has no button: the
\* handler takes whatever follows "buy_egg:" in the callback data
EggTypeInputs == DOMAIN EGG_COSTS \cup {"bogus"}

\* a determine_rarity whose rare egg draws over all six rarities
determine_rarity_rare_as_common(egg_type) ==
    IF egg_type = "mythical" THEN {"Mythical"}
    ELSE IF egg_type = "legendary" THEN {"Legendary", "Mythical"}
    ELSE IF egg_type = "epic" THEN {"Epic", "Legendary"}
    ELSE DOMAIN RARITIES

\* PetGenerator.determine_rarity: the rarities random.choices can return, which
\* are those of a positive weight
determine_rarity(egg_type) ==
    IF egg_type = "mythical" THEN {"Mythical"}
    ELSE IF egg_type = "legendary" THEN {"Legendary", "Mythical"}
    ELSE IF egg_type = "epic" THEN {"Epic", "Legendary"}
    ELSE IF egg_type = "rare" THEN {"Rare", "Epic", "Legendary"}
    ELSE DOMAIN RARITIES

\* PetGenerator.calculate_base_stats: int(base * 1.2) for a shiny pet
calculate_base_stats(rarity, is_shiny) ==
    [income_per_hour |-> IF is_shiny THEN (RARITIES[rarity].base_income * 12) \div 10
                         ELSE RARITIES[rarity].base_income,
     power |-> IF is_shiny THEN (RARITIES[rarity].base_power * 12) \div 10
               ELSE RARITIES[rarity].base_power]

\* PetGenerator.generate_pet and the Pet row of it; the loyalty drawn in 40..60
\* never exceeds the loyalty threshold and is taken at 50
generate_pet(owner_id, rarity, is_shiny) ==
    [NewPet(owner_id, rarity, FALSE) EXCEPT
        !.power = calculate_base_stats(rarity, is_shiny).power,
        !.income_per_hour = calculate_base_stats(rarity, is_shiny).income_per_hour]

NextPetId(s) == Max(0, CHOOSE m \in DOMAIN s.pets : \A q \in DOMAIN s.pets : q <= m) + 1

\* PetService.create_pet: adds the row and commits the session
create_pet(c, owner_id, rarity, is_shiny) ==
    Commit([c.s EXCEPT !.pets = @ @@ (NextPetId(c.s) :> generate_pet(owner_id, rarity, is_shiny))],
           NextPetId(c.s))

\* a buy_egg that looks at the slots as open_egg_menu does
buy_egg_checking_slots(c, user_id, egg_type, rarity, is_shiny, t) ==
    IF user_id \notin DOMAIN c.s.users THEN Ctx(c.d, c.d, "AttributeError")
    ELSE
      LET user == c.s.users[user_id]
          cost == IF egg_type \in DOMAIN EGG_COSTS THEN EGG_COSTS[egg_type]
                  ELSE [coins |-> 0, stars |-> 0]
          pets_count == Cardinality({q \in DOMAIN c.s.pets : c.s.pets[q].owner_id = user_id})
      IN  IF pets_count >= user.pet_slots THEN Commit(c.s, "no slots")
          ELSE IF cost.coins > 0 /\ user.coins < cost.coins THEN Commit(c.s, "not enough coins")
          ELSE IF cost.stars > 0 /\ user.stars < cost.stars THEN Commit(c.s, "not enough stars")
          ELSE
            LET paid == [c.s EXCEPT !.users[user_id].coins = @ - cost.coins,
                                    !.users[user_id].stars = @ - cost.stars]
                made == create_pet(Ctx(paid, c.d, "none"), user_id, rarity, is_shiny)
                ach == check_and_update_achievements(made, user_id, "pets_owned", 1, t)
            IN  Commit(ach.s, "ok")

\* a buy_egg that charges an egg type of no configured cost as a common egg
buy_egg_unknown_as_common(c, user_id, egg_type, rarity, is_shiny, t) ==
    IF user_id \notin DOMAIN c.s.users THEN Ctx(c.d, c.d, "AttributeError")
    ELSE
      LET user == c.s.users[user_id]
          cost == IF egg_type \in DOMAIN EGG_COSTS THEN EGG_COSTS[egg_type]
                  ELSE EGG_COSTS["common"]
      IN  IF cost.coins > 0 /\ user.coins < cost.coins THEN Commit(c.s, "not enough coins")
          ELSE IF cost.stars > 0 /\ user.stars < cost.stars THEN Commit(c.s, "not enough stars")
          ELSE
            LET paid == [c.s EXCEPT !.users[user_id].coins = @ - cost.coins,
                                    !.users[user_id].stars = @ - cost.stars]
                made == create_pet(Ctx(paid, c.d, "none"), user_id, rarity, is_shiny)
                ach == check_and_update_achievements(made, user_id, "pets_owned", 1, t)
            IN  Commit(ach.s, "ok")

\* handlers/pets.py buy_egg with the commit of DatabaseMiddleware after it; a
\* user that is not registered makes user.coins raise and the session roll back
buy_egg(c, user_id, egg_type, rarity, is_shiny, t) ==
    IF user_id \notin DOMAIN c.s.users THEN Ctx(c.d, c.d, "AttributeError")
    ELSE
      LET user == c.s.users[user_id]
          cost == IF egg_type \in DOMAIN EGG_COSTS THEN EGG_COSTS[egg_type]
                  ELSE [coins |-> 0, stars |-> 0]
      IN  IF cost.coins > 0 /\ user.coins < cost.coins THEN Commit(c.s, "not enough coins")
          ELSE IF cost.stars > 0 /\ user.stars < cost.stars THEN Commit(c.s, "not enough stars")
          ELSE
            LET paid == [c.s EXCEPT !.users[user_id].coins = @ - cost.coins,
                                    !.users[user_id].stars = @ - cost.stars]
                made == create_pet(Ctx(paid, c.d, "none"), user_id, rarity, is_shiny)
                ach == check_and_update_achievements(made, user_id, "pets_owned", 1, t)
            IN  Commit(ach.s, "ok")

\* handlers/start.py get_or_create_user: a new user gets the starting coins and
\* slots and a starter pet of a common egg
get_or_create_user(c, user_id, rarity, is_shiny, t) ==
    IF user_id \in DOMAIN c.s.users THEN Commit(c.s, "user")
    ELSE
      LET added == Commit([c.s EXCEPT !.users = @ @@ (user_id :> NewUser(0))], "none")
          made == create_pet(added, user_id, rarity, is_shiny)
          ach == check_and_update_achievements(made, user_id, "pets_owned", 1, t)
      IN  Ctx(ach.s, ach.d, "created")

\* A watched buy_egg: the rarity is any that determine_rarity can draw for the
\* egg type, the shiny flag any of `shinies`
BuyEggCall(watched, inputs, shinies, limit) ==
    /\ Cardinality(DOMAIN pets) < Cardinality(Pets) + limit
    /\ \E in \in inputs, is_shiny \in shinies :
         \E rarity \in determine_rarity(in[2]) :
           LET r == buy_egg(Ctx(DB, DB, "none"), in[1], in[2], rarity, is_shiny, now) IN
           /\ Store(r.d)
           /\ Log(watched, [op |-> "buy_egg", user |-> in[1], egg_type |-> in[2],
                            rarity |-> rarity, ret |-> r.ret])
    /\ UNCHANGED <<now, sessions>>

RegisterCall(watched, ids, limit) ==
    /\ Cardinality(DOMAIN pets) < Cardinality(Pets) + limit
    /\ \E user_id \in ids, rarity \in determine_rarity("common") :
         LET r == get_or_create_user(Ctx(DB, DB, "none"), user_id, rarity, FALSE, now) IN
         /\ Store(r.d)
         /\ Log(watched, [op |-> "get_or_create_user", user |-> user_id,
                          rarity |-> rarity, ret |-> r.ret])
    /\ UNCHANGED <<now, sessions>>

\* The users of Init, the first of them holding the stars of a mythical egg and
\* of a rare one after it
EggInit ==
    /\ now = 0
    /\ users = (1 :> NewUser(1100) @@ 2 :> NewUser(25) @@ 3 :> NewUser(0))
    /\ pets = (1 :> NewPet(1, "Common", FALSE)
            @@ 2 :> NewPet(2, "Rare", TRUE)
            @@ 3 :> NewPet(2, "Mythical", FALSE)
            @@ 4 :> NewPet(3, "Uncommon", TRUE))
    /\ missions = <<>>
    /\ raids = <<>>
    /\ progress = <<>>
    /\ sessions = [i \in SessionIds |-> Idle]
    /\ last = [op |-> "init"]

\* user 1 buys an egg of each type, user 2 a common egg, and user 4 one before
\* or after registering
EggInputs == ({1} \X EggTypeInputs) \cup {<<2, "common">>, <<4, "common">>}
NewUserInputs == {1, 4}

WatchedBuyEgg == BuyEggCall(TRUE, EggInputs, BOOLEAN, MaxEggs)
WatchedRegister == RegisterCall(TRUE, NewUserInputs, MaxEggs)

EggNext ==
    \/ WatchedBuyEgg
    \/ WatchedRegister

EggCalls == EggInit /\ [][EggNext]_vars

\* the rarities the specification permits for an egg type; it names five types
PermittedRarities(egg_type) ==
    CASE egg_type = "mythical" -> {"Mythical"}
      [] egg_type = "legendary" -> {"Legendary", "Mythical"}
      [] egg_type = "epic" -> {"Epic", "Legendary"}
      [] egg_type = "rare" -> {"Rare", "Epic", "Legendary"}
      [] OTHER -> {"Common", "Uncommon", "Rare", "Epic", "Legendary", "Mythical"}

\* the pet rows a step adds
Hatched == DOMAIN pets' \ DOMAIN pets

\* C26: the pet that a buy_egg of an egg type adds to the pets table has a
\* rarity of the set permitted for that type (mythical: Mythical; legendary:
\* Legendary or Mythical; epic: Epic or Legendary; rare: Rare, Epic or
\* Legendary; common: any of the six); a purchase adds exactly one pet, owned
\* by the buyer, with the base stats of its rarity (times 1.2 when shiny)
C26_RarityPermittedForEgg ==
    [][last'.op = "buy_egg" /\ last'.ret = "ok" =>
         /\ Cardinality(Hatched) = 1
         /\ \A p \in Hatched :
              /\ pets'[p].rarity \in PermittedRarities(last'.egg_type)
              /\ pets'[p].owner_id = last'.user
              /\ pets'[p].power \in {RARITIES[pets'[p].rarity].base_power,
                                     (RARITIES[pets'[p].rarity].base_power * 12) \div 10}]_vars

\* C26 witness: a legendary egg of user 1 has hatched a Mythical pet, after
\* an egg that hatched an Epic or Legendary one
C26_RestrictedEggsHatched ==
    /\ last.op = "buy_egg" /\ last.ret = "ok" /\ last.egg_type = "legendary"
    /\ \E p, q \in DOMAIN pets \ Pets :
         /\ q < p
         /\ pets[p].rarity = "Mythical"
         /\ pets[q].rarity \in {"Epic", "Legendary"}
         /\ pets[q].owner_id = 1

\* C27: in every committed state reached by start_mission, complete_mission,
\* cancel_mission, the sweep and execute_raid, a pet's is_on_mission flag is
\* true if and only if some mission of status active names that pet
C27_OnMissionIffActiveMission ==
    \A p \in DOMAIN pets : pets[p].is_on_mission <=> ActiveMissionsOf(p) # {}

\* C27 witness: a pet is on its second mission after its first one ended, and
\* a pet that was stolen in a raid is on a mission of its new owner
C27_FlagFollowedMissions ==
    /\ \E m, n \in DOMAIN missions :
         /\ missions[m].pet_id = missions[n].pet_id
         /\ missions[m].status \in Terminal
         /\ missions[n].status = "active"
         /\ pets[missions[n].pet_id].is_on_mission
    /\ \E r \in DOMAIN raids : raids[r].stolen_pet_id # None
    /\ \E p \in DOMAIN pets : ~pets[p].is_on_mission /\ ActiveMissionsOf(p) = {}

\* Registrations, common eggs of user 2 and raids between users 1 and 2, from
\* the state of Init: user 2 owns two pets and five slots
SlotEgg == BuyEggCall(TRUE, {<<2, "common">>}, {FALSE}, MaxSlotEggs)
SlotRegister == RegisterCall(TRUE, {4}, MaxSlotEggs)
SlotRaid == ExecuteRaidCall(TRUE, MaxRaids, {<<1, 2>>, <<2, 1>>})

SlotNext ==
    \/ SlotEgg
    \/ SlotRegister
    \/ SlotRaid

SlotCalls == Init /\ [][SlotNext]_vars

OwnedPets(u) == Cardinality({p \in DOMAIN pets : pets[p].owner_id = u})

\* C28 as stated: after any registrations, egg purchases and raids, no user
\* owns more pets than pet_slots
C28_PetsWithinSlots ==
    \A u \in DOMAIN users : OwnedPets(u) <= users[u].pet_slots

\* C28: a registration or a raid never takes a user above pet_slots (the
\* starter pet is the first of five, transfer_pet refuses a full owner); only
\* an egg purchase does, for its buyer: buy_egg adds the pet whatever the
\* number of pets owned
C28_OnlyEggsExceedSlots ==
    [][\A u \in DOMAIN users' :
         OwnedPets(u)' > OwnedPets(u) /\ OwnedPets(u)' > users'[u].pet_slots =>
            last'.op = "buy_egg" /\ last'.user = u /\ last'.ret = "ok"]_vars

\* C28 witness: user 2 has stolen a pet and bought eggs up to a sixth pet,
\* and user 4 has registered
C28_SixthPetHatched ==
    /\ last.op = "buy_egg" /\ last.user = 2
    /\ OwnedPets(2) > users[2].pet_slots
    /\ \E r \in DOMAIN raids : raids[r].stolen_pet_id # None /\ raids[r].attacker_id = 2
    /\ 4 \in DOMAIN users /\ OwnedPets(4) = 1

\* Payments: an egg for coins, one for stars and one of no configured cost
\* for user 1 (1100 stars, 1000 coins) and a rare egg for user 2 (25 stars), walls for user 1, missions of any pet
\* that are skipped ahead and resolved
PayEggInputs == ({1} \X {"common", "mythical", "bogus"}) \cup {<<2, "rare">>}
PayEgg == BuyEggCall(TRUE, PayEggInputs, {FALSE}, MaxPaidEggs)
PayTrap == BuyTrapCall(FALSE, {1} \X {"basic_wall", "moat"})

PaymentNext ==
    \/ PayEgg
    \/ PayTrap
    \/ QuickMission
    \/ InstantComplete
    \/ CompleteMission

PaymentCalls == EggInit /\ [][PaymentNext]_vars

\* the achievements a step completes for the user, and what a step takes from
\* a balance once the rewards of those are set apart
CompletedNow(u) ==
    {a \in DOMAIN ACHIEVEMENTS : /\ <<u, a>> \in DOMAIN progress'
                                 /\ progress'[<<u, a>>].completed
                                 /\ ~CompletedBefore(u, a)}
Deducted(u, field) ==
    users[u][field] + TotalReward(CompletedNow(u), "reward_" \o field) - users'[u][field]

\* the egg type whose rarity table determine_rarity uses
TableOf(egg_type) ==
    IF egg_type \in {"mythical", "legendary", "epic", "rare"} THEN egg_type ELSE "common"

EggBought == last' # last /\ last'.op = "buy_egg" /\ last'.ret = "ok"

NoNegativeBalance ==
    \A u \in DOMAIN users : users[u].coins >= 0 /\ users[u].stars >= 0

\* C29 as stated: no balance of coins or stars is ever negative, and every
\* egg purchase deducts the configured cost of the egg type whose rarity
\* table generated the pet
C29_ExactCostOfTableUsed ==
    /\ []NoNegativeBalance
    /\ [][EggBought =>
            /\ Deducted(last'.user, "coins") = EGG_COSTS[TableOf(last'.egg_type)].coins
            /\ Deducted(last'.user, "stars") = EGG_COSTS[TableOf(last'.egg_type)].stars]_vars

\* C29: no balance of coins or stars is ever negative; a purchase of an egg
\* type that has a configured cost deducts exactly that cost and hatches a
\* pet of that type's table; a purchase of any other egg type deducts nothing
\* and hatches a pet of the common table; a refused purchase deducts nothing
\* and hatches nothing
C29_CostOfNamedTypeOnly ==
    /\ []NoNegativeBalance
    /\ [][last' # last /\ last'.op = "buy_egg" =>
            IF last'.ret = "ok"
            THEN /\ Cardinality(Hatched) = 1
                 /\ Deducted(last'.user, "coins") =
                        IF last'.egg_type \in DOMAIN EGG_COSTS
                        THEN EGG_COSTS[last'.egg_type].coins ELSE 0
                 /\ Deducted(last'.user, "stars") =
                        IF last'.egg_type \in DOMAIN EGG_COSTS
                        THEN EGG_COSTS[last'.egg_type].stars ELSE 0
            ELSE /\ Hatched = {}
                 /\ users' = users]_vars

\* C29 witness: an egg of a type without a configured cost has hatched a pet
\* for a buyer who had bought walls and skipped a mission ahead
C29_FreeEggHatched ==
    /\ last.op = "buy_egg" /\ last.ret = "ok" /\ last.egg_type = "bogus"
    /\ users[last.user].traps["basic_wall"] >= 2
    /\ users[last.user].stars < 1100
    /\ \E p \in DOMAIN pets \ Pets : pets[p].owner_id = last.user

\* the total of a tally over the users, and the Raid records of a result
TallySum(field) == SumOver(DOMAIN users, [u \in DOMAIN users |-> users[u][field]])
RaidsWith(result) == {r \in DOMAIN raids : raids[r].result = result}

TalliesMatchRaids ==
    /\ TallySum("raids_won") = TallySum("defenses_lost")
    /\ TallySum("raids_won") = Cardinality(RaidsWith("win"))
    /\ TallySum("raids_lost") = TallySum("defenses_won")
    /\ TallySum("raids_lost") = Cardinality(RaidsWith("lose"))
    /\ \A r \in DOMAIN raids : raids[r].stolen_pet_id # None => raids[r].result = "win"

\* C30: after any sequence of raids from zero tallies, the raids_won of all
\* users add up to their defenses_lost and to the number of Raid records of
\* result win, the raids_lost add up to the defenses_won and to the number of
\* records of result lose, and a Raid record with a stolen_pet_id has result
\* win and names a pet that the defender owned before the raid and the
\* attacker owns after it
C30_TalliesAndStolenPets ==
    /\ []TalliesMatchRaids
    /\ [][Len(raids') = Len(raids) + 1 /\ NewRaid.stolen_pet_id # None =>
            /\ NewRaid.result = "win"
            /\ pets[NewRaid.stolen_pet_id].owner_id = NewRaid.defender_id
            /\ pets'[NewRaid.stolen_pet_id].owner_id = NewRaid.attacker_id
            /\ \A p \in DOMAIN pets \ {NewRaid.stolen_pet_id} :
                  pets'[p].owner_id = pets[p].owner_id]_vars

\* C30 witness: a raid was won with a pet stolen and another one was lost
C30_WonWithStealAndLost ==
    /\ \E r \in RaidsWith("win") : raids[r].stolen_pet_id # None
    /\ RaidsWith("lose") # {}
    /\ TallySum("raids_won") = 1 /\ TallySum("defenses_won") = 1
====
